---- MODULE Spec2Model ----
(***************************************************************************)
(* SimuStats: the linear congruential generator, the sampling transforms   *)
(* built on it, the generation window (generar_datos) and the goodness of  *)
(* fit window (realizar_prueba_local), as state machines.                   *)
(*                                                                         *)
(* Number representation.  Python integers are unbounded; a 32-bit state   *)
(* does not fit a model-checker integer, so an integer x is held as two    *)
(* limbs [hi, lo] with x = hi * 2^16 + lo, 0 <= lo < 2^16 and hi any       *)
(* integer (negative for negative x, >= 2^16 for x >= 2^32).  A float that *)
(* is an exact multiple of 2^-32 is held as [k |-> "fx", i, hi, lo] with   *)
(* value i + (hi * 2^16 + lo) / 2^32; the other floats are [k |-> "inf"],  *)
(* [k |-> "ninf"] and unevaluated finite expressions (k = "neglog_div",    *)
(* k = "boxmuller").                                                       *)
(***************************************************************************)
EXTENDS Integers, Sequences, FiniteSets, TLC

W16 == 2^16

\* ------------------------------------------------------------------------
\* Bounds of the exploration
\* ------------------------------------------------------------------------
MaxN == 2          \* largest count n asked of a sampling method
MaxDraws == 4      \* a call is explored only while the stream position stays <= MaxDraws
MaxLlamadas == 1   \* method calls explored on one generator instance
MaxGeneraciones == 2   \* runs of generar_datos explored in one window
MaxBins == 6       \* every expected vector is explored up to this number of bins
MaxPuntos == 2     \* largest number of points asked of the pi and integral experiments
MaxJugadores == 2  \* largest number of players asked of the ruin experiment
MaxSimulaciones == 1   \* experiments explored in one Monte Carlo window
MaxClientes == 3   \* largest number of customers per hour asked of the queue experiment
MaxDemandas == 2   \* largest number of demand draws per Q asked of the inventory experiment

\* ------------------------------------------------------------------------
\* Integers in limbs and floats with 32 fractional bits
\* ------------------------------------------------------------------------
Limbs(h, l) == [hi |-> h, lo |-> l]

Fx(n, h, l) == [k |-> "fx", i |-> n, hi |-> h, lo |-> l]

FxInt(n) == Fx(n, 0, 0)

PosInf == [k |-> "inf"]

NegInf == [k |-> "ninf"]

NaN == [k |-> "nan"]

\* the float 1e-17: above 0 and below 2^-54, so below every positive float
\* with 32 fractional bits
Diminuto == [k |-> "1e-17"]

\* x < y on floats: false as soon as one side is nan
FxLess(x, y) ==
    IF x.k = "nan" \/ y.k = "nan" THEN FALSE
    ELSE IF x.k = "fx" /\ y.k = "fx"
         THEN \/ x.i < y.i
              \/ x.i = y.i /\ x.hi < y.hi
              \/ x.i = y.i /\ x.hi = y.hi /\ x.lo < y.lo
    ELSE IF x.k = "ninf" THEN y.k # "ninf"
    ELSE IF y.k = "inf" THEN x.k # "inf"
    ELSE IF x = Diminuto
         THEN y.k = "fx" /\ (y.i > 0 \/ (y.i = 0 /\ (y.hi > 0 \/ y.lo > 0)))
    ELSE IF y = Diminuto
         THEN x.k = "fx" /\ (x.i < 0 \/ (x.i = 0 /\ x.hi = 0 /\ x.lo = 0))
    ELSE FALSE

FxLeq(x, y) == (x.k # "nan" /\ x = y) \/ FxLess(x, y)

IsFinite(v) == v.k \notin {"inf", "ninf", "nan"}

\* a + b and a - b on floats that are nan, infinite, or finite with at most
\* 32 fractional bits, on which the sum and the difference are exact
FxSuma(a, b) ==
    IF a.k = "nan" \/ b.k = "nan" THEN NaN
    ELSE IF a.k = "fx" /\ b.k = "fx"
         THEN LET low == a.lo + b.lo
                  mid == a.hi + b.hi + (low \div W16)
              IN  Fx(a.i + b.i + (mid \div W16), mid % W16, low % W16)
    ELSE IF a.k = "fx" THEN b
    ELSE IF b.k = "fx" \/ a = b THEN a
    ELSE NaN

FxResta(a, b) ==
    IF a.k = "nan" \/ b.k = "nan" THEN NaN
    ELSE IF a.k = "fx" /\ b.k = "fx"
         THEN LET low == a.lo - b.lo
                  mid == a.hi - b.hi + (low \div W16)
              IN  Fx(a.i - b.i + (mid \div W16), mid % W16, low % W16)
    ELSE IF a.k = "fx" THEN (IF b = PosInf THEN NegInf ELSE PosInf)
    ELSE IF b.k = "fx" \/ a # b THEN a
    ELSE NaN

\* ------------------------------------------------------------------------
\* class GeneradorAleatorios
\* ------------------------------------------------------------------------
None == [k |-> "None"]

\* the multiplier, the increment and the modulus of lcg()
lcg_a == Limbs(25, 26125)            \* 1664525
lcg_c == Limbs(15470, 62303)         \* 1013904223
lcg_m_limbs == W16                   \* m = 2^32 = W16 limbs of W16

\* __init__ written with "if not semilla": the seed 0 is taken for a missing seed
GeneradorAleatorios_falsy(semilla, entropia) ==
    LET s == IF semilla = None \/ semilla = Limbs(0, 0) THEN entropia ELSE semilla
    IN  [semilla |-> s, actual |-> s, draws |-> 0]

\* __init__: semilla is an integer in limbs or None; entropia stands for the
\* value (tiempo ^ pid ^ random_bytes) % (2**31 - 1) the environment yields.
\* draws is an auxiliary counter of the calls of lcg() on this instance.
GeneradorAleatorios(semilla, entropia) ==
    LET s == IF semilla = None THEN entropia ELSE semilla
    IN  [semilla |-> s, actual |-> s, draws |-> 0]

\* the recurrence without the reduction modulo m
lcg_next_sin_mod(x) ==
    LET low == lcg_a.lo * x.lo + lcg_c.lo
        mid == lcg_a.lo * (x.hi % W16) + lcg_a.hi * x.lo + lcg_c.hi + (low \div W16)
    IN  Limbs(mid, low % W16)

\* the recurrence with the increment off by one
lcg_next_c_mal(x) ==
    LET low == lcg_a.lo * x.lo + lcg_c.lo + 1
        mid == lcg_a.lo * (x.hi % W16) + lcg_a.hi * x.lo + lcg_c.hi + (low \div W16)
    IN  Limbs(mid % lcg_m_limbs, low % W16)

\* self.actual = (a * self.actual + c) % m, limb by limb: the product of the
\* two high limbs is a multiple of m, and the high limb of x enters the result
\* only through its residue (any integer seed is accepted without overflow)
lcg_next(x) ==
    LET low == lcg_a.lo * x.lo + lcg_c.lo
        mid == lcg_a.lo * (x.hi % W16) + lcg_a.hi * x.lo + lcg_c.hi + (low \div W16)
    IN  Limbs(mid % lcg_m_limbs, low % W16)

\* self.actual / m
lcg_ratio(x) == Fx(x.hi \div lcg_m_limbs, x.hi % lcg_m_limbs, x.lo)

\* lcg(): the new generator and the returned float
lcg(g) ==
    LET x == lcg_next(g.actual)
    IN  [g |-> [g EXCEPT !.actual = x, !.draws = @ + 1], ret |-> lcg_ratio(x)]

\* a + (b - a) * u for integer a, b (exact in double precision while
\* |a|, |b| < 2^14: the result has at most 47 significant bits)
uniforme_valor(a, b, u) ==
    LET d == b.i - a.i
        low == d * u.lo
        mid == d * u.hi + (low \div W16)
    IN  Fx(a.i + d * u.i + (mid \div W16), mid % W16, low % W16)

\* the list built by inserting at the front
RECURSIVE uniforme_loop_invertido(_, _, _, _, _)
uniforme_loop_invertido(g, a, b, n, acc) ==
    IF n <= 0 THEN [g |-> g, ret |-> acc]
    ELSE LET r == lcg(g)
         IN  uniforme_loop_invertido(r.g, a, b, n - 1, <<uniforme_valor(a, b, r.ret)>> \o acc)

RECURSIVE uniforme_loop(_, _, _, _, _)
uniforme_loop(g, a, b, n, acc) ==
    IF n <= 0 THEN [g |-> g, ret |-> acc]
    ELSE LET r == lcg(g)
         IN  uniforme_loop(r.g, a, b, n - 1, Append(acc, uniforme_valor(a, b, r.ret)))

uniforme(g, a, b, n) == uniforme_loop(g, a, b, n, <<>>)

\* -np.log(u) / lambd for lambd > 0: np.log(0.0) is -inf, so u = 0 gives +inf;
\* any other u in (0,1) gives a finite positive float, kept unevaluated.
exponencial_valor(lambd, u) ==
    IF u = Fx(0, 0, 0) THEN PosInf
    ELSE [k |-> "neglog_div", u |-> u, lambd |-> lambd]

RECURSIVE exponencial_loop(_, _, _, _)
exponencial_loop(g, lambd, n, acc) ==
    IF n <= 0 THEN [g |-> g, ret |-> acc]
    ELSE LET r == lcg(g)
         IN  exponencial_loop(r.g, lambd, n - 1, Append(acc, exponencial_valor(lambd, r.ret)))

exponencial(g, lambd, n) == exponencial_loop(g, lambd, n, <<>>)

\* mu + sigma * sqrt(-2 ln u1) * cos(2 pi u2) for sigma > 0: u1 = 0 gives
\* sqrt(inf) = inf times a cosine that is never exactly 0 in double precision
\* (positive for u2 <= 1/4 and u2 > 3/4), so the value is +inf or -inf.
normal_valor(mu, sigma, u1, u2) ==
    IF u1 = Fx(0, 0, 0)
    THEN IF FxLeq(u2, Fx(0, W16 \div 4, 0)) \/ FxLess(Fx(0, 3 * (W16 \div 4), 0), u2)
         THEN PosInf ELSE NegInf
    ELSE [k |-> "boxmuller", u1 |-> u1, u2 |-> u2, mu |-> mu, sigma |-> sigma]

RECURSIVE normal_loop(_, _, _, _, _)
normal_loop(g, mu, sigma, n, resultados) ==
    IF n <= 0 THEN [g |-> g, ret |-> resultados]
    ELSE LET r1 == lcg(g)
             r2 == lcg(r1.g)
         IN  normal_loop(r2.g, mu, sigma, n - 1,
                         Append(resultados, normal_valor(mu, sigma, r1.ret, r2.ret)))

normal(g, mu, sigma, n) == normal_loop(g, mu, sigma, n, <<>>)

\* 1 if self.lcg() < p else 0
\* 1 if self.lcg() <= p else 0
bernoulli_valor_no_estricto(p, u) == IF FxLeq(u, p) THEN 1 ELSE 0

bernoulli_valor(p, u) == IF FxLess(u, p) THEN 1 ELSE 0

RECURSIVE bernoulli_loop(_, _, _, _)
bernoulli_loop(g, p, n, acc) ==
    IF n <= 0 THEN [g |-> g, ret |-> acc]
    ELSE LET r == lcg(g)
         IN  bernoulli_loop(r.g, p, n - 1, Append(acc, bernoulli_valor(p, r.ret)))

bernoulli(g, p, n) == bernoulli_loop(g, p, n, <<>>)

RECURSIVE SumSeq(_)
SumSeq(s) == IF s = <<>> THEN 0 ELSE Head(s) + SumSeq(Tail(s))

\* every value summed over one trial less
RECURSIVE binomial_loop_un_ensayo_menos(_, _, _, _, _)
binomial_loop_un_ensayo_menos(g, n_trials, p, n, acc) ==
    IF n <= 0 THEN [g |-> g, ret |-> acc]
    ELSE LET r == bernoulli(g, p, n_trials)
         IN  binomial_loop_un_ensayo_menos(r.g, n_trials, p, n - 1,
                                           Append(acc, SumSeq(SubSeq(r.ret, 2, n_trials))))

RECURSIVE binomial_loop(_, _, _, _, _)
binomial_loop(g, n_trials, p, n, acc) ==
    IF n <= 0 THEN [g |-> g, ret |-> acc]
    ELSE LET r == bernoulli(g, p, n_trials)
         IN  binomial_loop(r.g, n_trials, p, n - 1, Append(acc, SumSeq(r.ret)))

binomial(g, n_trials, p, n) == binomial_loop(g, n_trials, p, n, <<>>)

\* ------------------------------------------------------------------------
\* IEEE double precision products for poisson(): a positive double is
\* [m, e] with value m * 2^e and 2^52 <= m < 2^53, m in little-endian
\* digits of base 2^15; [m |-> <<>>, e |-> 0] is 0.0.
\* ------------------------------------------------------------------------
B15 == 2^15

dbl_zero == [m |-> <<>>, e |-> 0]

dbl_one == [m |-> <<0, 0, 0, 128>>, e |-> -52]

RECURSIVE BigMulSmall(_, _, _)
BigMulSmall(A, d, carry) ==
    IF A = <<>> THEN <<carry>>
    ELSE LET t == Head(A) * d + carry
         IN  <<t % B15>> \o BigMulSmall(Tail(A), d, t \div B15)

RECURSIVE BigAdd(_, _, _)
BigAdd(A, C, carry) ==
    IF A = <<>> /\ C = <<>> THEN <<carry>>
    ELSE LET x == IF A = <<>> THEN 0 ELSE Head(A)
             y == IF C = <<>> THEN 0 ELSE Head(C)
             t == x + y + carry
         IN  <<t % B15>> \o BigAdd(IF A = <<>> THEN A ELSE Tail(A),
                                   IF C = <<>> THEN C ELSE Tail(C), t \div B15)

\* number of bits of a digit, and of a number in digits (A # 0)
DigitBits(d) == CHOOSE n \in 0..15 : d < 2^n /\ (n = 0 \/ d >= 2^(n - 1))

BigTop(A) == CHOOSE j \in 1..Len(A) : A[j] # 0 /\ \A t \in (j + 1)..Len(A) : A[t] = 0

BigBits(A) == 15 * (BigTop(A) - 1) + DigitBits(A[BigTop(A)])

\* bit t of A (bit 0 is the lowest), and whether a bit below t is set
BigBit(A, t) == (A[(t \div 15) + 1] \div 2^(t % 15)) % 2

BigLowBits(A, t) ==
    \/ \E j \in 1..(t \div 15) : A[j] # 0
    \/ A[(t \div 15) + 1] % 2^(t % 15) # 0

\* floor(A / 2^s)
BigShr(A, s) ==
    LET a == s \div 15
        b == s % 15
    IN  [j \in 1..(Len(A) - a) |->
            (A[j + a] \div 2^b)
            + (IF j + a < Len(A) THEN (A[j + a + 1] % 2^b) * 2^(15 - b) ELSE 0)]

\* round to nearest, ties to even, of A * 2^e (A >= 2^52) to a double
dbl_round(A, e) ==
    LET s == BigBits(A) - 53
        Q == BigShr(A, s)
        up == s > 0 /\ BigBit(A, s - 1) = 1 /\ (BigLowBits(A, s - 1) \/ Q[1] % 2 = 1)
        R == IF up THEN BigAdd(Q, <<1>>, 0) ELSE Q
    IN  IF BigBits(R) > 53 THEN [m |-> SubSeq(BigShr(R, 1), 1, 4), e |-> e + s + 1]
        ELSE [m |-> SubSeq(R, 1, 4), e |-> e + s]

\* p * u in double precision, u = (hi * 2^16 + lo) / 2^32 a return value of lcg()
dbl_mul_u(p, u) ==
    IF p = dbl_zero \/ (u.hi = 0 /\ u.lo = 0) THEN dbl_zero
    ELSE LET x0 == u.lo % B15
             x1 == (u.lo \div B15) + 2 * (u.hi % (B15 \div 2))
             x2 == u.hi \div (B15 \div 2)
             r0 == BigMulSmall(p.m, x0, 0)
             r1 == <<0>> \o BigMulSmall(p.m, x1, 0)
             r2 == <<0, 0>> \o BigMulSmall(p.m, x2, 0)
         IN  dbl_round(BigAdd(BigAdd(r0, r1, 0), r2, 0), p.e - 32)

RECURSIVE BigGreater(_, _)
BigGreater(A, C) ==
    IF A = <<>> THEN FALSE
    ELSE \/ A[Len(A)] > C[Len(C)]
         \/ A[Len(A)] = C[Len(C)]
            /\ BigGreater(SubSeq(A, 1, Len(A) - 1), SubSeq(C, 1, Len(C) - 1))

\* p > L for doubles p >= 0 and L > 0
dbl_greater(p, L) ==
    /\ p # dbl_zero
    /\ \/ p.e > L.e
       \/ p.e = L.e /\ BigGreater(p.m, L.m)

\* np.exp(-lambd) for the rates the exploration uses: exp(-1e-17) is
\* above 1 - 2^-54 and rounds to 1.0
exp_neg(lambd) ==
    CASE lambd = Fx(0, W16 \div 2, 0) -> [m |-> <<5642, 30943, 8907, 155>>, e |-> -53]
      [] lambd = FxInt(1) -> [m |-> <<28472, 27737, 11608, 188>>, e |-> -54]
      [] lambd = FxInt(2) -> [m |-> <<460, 18303, 19114, 138>>, e |-> -55]
      [] lambd = Diminuto -> dbl_one

\* while p > L: k += 1; p *= self.lcg()
RECURSIVE poisson_while(_, _, _, _)
poisson_while(g, L, kk, p) ==
    IF dbl_greater(p, L)
    THEN LET r == lcg(g) IN poisson_while(r.g, L, kk + 1, dbl_mul_u(p, r.ret))
    ELSE [g |-> g, k |-> kk]

\* resultados.append(k - 1)
RECURSIVE poisson_loop(_, _, _, _)
poisson_loop(g, lambd, n, resultados) ==
    IF n <= 0 THEN [g |-> g, ret |-> resultados]
    ELSE LET w == poisson_while(g, exp_neg(lambd), 0, dbl_one)
         IN  poisson_loop(w.g, lambd, n - 1, Append(resultados, w.k - 1))

poisson(g, lambd, n) == poisson_loop(g, lambd, n, <<>>)

\* k += 1 and a draw taken, the product left as it was
poisson_paso_sin_multiplicar(m) ==
    LET r == lcg(m.g)
    IN  [m EXCEPT !.g = r.g, !.k = @ + 1]

\* one pass of while p > L: k += 1; p *= self.lcg(), on the locals m
poisson_paso(m) ==
    LET r == lcg(m.g)
    IN  [m EXCEPT !.g = r.g, !.k = @ + 1, !.p = dbl_mul_u(@, r.ret)]

\* ------------------------------------------------------------------------
\* State
\* ------------------------------------------------------------------------
VARIABLES
    gen,            \* per instance: the GeneradorAleatorios object, or None
    semilla_arg,    \* per instance: the argument __init__ was called with
    ultima,         \* per instance: the last method call and what it returned
    llamadas,       \* per instance: the number of method calls made so far
    datos_generados,    \* generation window: the stored sample
    generador_actual,   \* generation window: generador_actual[0]
    mensaje,            \* generation window: the last messagebox shown
    leido,              \* generation window: what the last run read from the entries
    generaciones,       \* generation window: runs of generar_datos so far
    datos_prueba,       \* fit window: the loaded sample
    resultados_text,    \* fit window: the sections of the results text
    grafico,            \* fit window: the axes ax of the comparison plot
    mensaje_prueba,     \* fit window: the messagebox the last operation showed
    alpha_leido,        \* fit window: the text the last run read from alpha_var
    observed,           \* merge loop: observed counts of the bins
    expected,           \* merge loop: expected frequencies of the bins
    bins,               \* merge loop: edges of the bins
    fase,               \* merge loop: position of the run in the loop
    simulacion,         \* Monte Carlo window: the locals of the running experiment
    texto_simulacion,   \* Monte Carlo window: the contents of the results text
    resultados_actuales,    \* Monte Carlo window: titulo and datos of the last results
    ejes,               \* Monte Carlo window: what the axes ax show
    mensaje_simulacion, \* Monte Carlo window: the messagebox the last run showed
    simulaciones,       \* Monte Carlo window: experiments started so far
    knuth               \* a call of poisson() taken pass by pass: its locals

varsGen == <<gen, semilla_arg, ultima, llamadas>>

varsGeneracion == <<datos_generados, generador_actual, mensaje, leido, generaciones>>

varsPrueba == <<datos_prueba, resultados_text, grafico, mensaje_prueba, alpha_leido>>

varsMerge == <<observed, expected, bins, fase>>

varsMonteCarlo ==
    <<simulacion, texto_simulacion, resultados_actuales, ejes, mensaje_simulacion, simulaciones>>

vars == <<gen, semilla_arg, ultima, llamadas,
          datos_generados, generador_actual, mensaje, leido, generaciones,
          datos_prueba, resultados_text, grafico, mensaje_prueba, alpha_leido,
          observed, expected, bins, fase,
          simulacion, texto_simulacion, resultados_actuales, ejes, mensaje_simulacion,
          simulaciones, knuth>>

\* ------------------------------------------------------------------------
\* ventana_generacion_aleatorios: generar_datos
\* ------------------------------------------------------------------------
ValueError == [ok |-> FALSE]

Valor(v) == [ok |-> TRUE, v |-> v]

\* int(texto) on the texts the exploration types
int_py(texto) ==
    CASE texto = "0" -> Valor(Limbs(0, 0))
      [] texto = "1" -> Valor(Limbs(0, 1))
      [] texto = "2" -> Valor(Limbs(0, 2))
      [] texto = "3" -> Valor(Limbs(0, 3))
      [] texto = "4" -> Valor(Limbs(0, 4))
      [] texto = "50" -> Valor(Limbs(0, 50))
      [] texto = "-1" -> Valor(Limbs(-1, 65535))
      [] texto = "1000001" -> Valor(Limbs(15, 16961))
      [] texto = "2000001" -> Valor(Limbs(30, 33921))
      [] texto = "634785765" -> Valor(Limbs(9686, 4069))
      [] OTHER -> ValueError

\* float(texto) on the texts the exploration types
float_py(texto) ==
    CASE texto = "0" -> Valor(FxInt(0))
      [] texto = "1" -> Valor(FxInt(1))
      [] texto = "2" -> Valor(FxInt(2))
      [] texto = "-1" -> Valor(FxInt(-1))
      [] texto = "0.5" -> Valor(Fx(0, W16 \div 2, 0))
      [] texto = "1.5" -> Valor(Fx(1, W16 \div 2, 0))
      [] texto = "-0.5" -> Valor(Fx(-1, W16 \div 2, 0))
      [] texto = "3" -> Valor(FxInt(3))
      [] texto = "4" -> Valor(FxInt(4))
      [] texto = "40" -> Valor(FxInt(40))
      [] texto = "0.25" -> Valor(Fx(0, W16 \div 4, 0))
      [] texto = "1e-17" -> Valor(Diminuto)
      [] texto = "inf" -> Valor(PosInf)
      [] texto = "nan" -> Valor(NaN)
      [] OTHER -> ValueError

\* a small Python int held in limbs, as a number
ValorInt(x) == x.hi * W16 + x.lo

SinLeer == "(sin leer)"

NadaLeido ==
    [n |-> SinLeer, auto |-> SinLeer, semilla |-> SinLeer, dist |-> SinLeer,
     param1 |-> SinLeer, param2 |-> SinLeer]

\* if n <= 0 or n > 1000000
n_fuera_de_rango_sin_cero(n) == n < 0 \/ n > 1000000

n_fuera_de_rango(n) == n <= 0 \/ n > 1000000

\* if not 0 <= p <= 1
p_fuera_de_rango(p) == ~(FxLeq(FxInt(0), p) /\ FxLeq(p, FxInt(1)))

\* if x <= 0 (n_trials, lambd, sigma)
no_positivo(x) == FxLeq(x, FxInt(0))

MsjRango == "El numero de valores debe estar entre 1 y 1,000,000"
MsjSemilla == "La semilla debe ser un numero entero"
MsjExito == "Se generaron los valores exitosamente"
MsjInvalidos == "Parametros invalidos"

Rechazo(msj, l) == [ok |-> FALSE, mensaje |-> msj, leido |-> l]

Muestra(r, l) == [ok |-> TRUE, g |-> r.g, datos |-> r.ret, leido |-> l]

\* the branch of the chosen distribution: its parameters are parsed and
\* validated, then the sampling method is called on gen
generar_distribucion(g, dist, w, n, l0) ==
    LET l1 == [l0 EXCEPT !.param1 = w.param1]
        l2 == [l1 EXCEPT !.param2 = w.param2]
        f1 == float_py(w.param1)
        f2 == float_py(w.param2)
        i1 == int_py(w.param1)
    IN  CASE dist = "Bernoulli" ->
                IF ~f1.ok THEN Rechazo("El parametro p debe ser un numero valido", l1)
                ELSE IF p_fuera_de_rango(f1.v)
                     THEN Rechazo("El parametro p debe estar entre 0 y 1", l1)
                     ELSE Muestra(bernoulli(g, f1.v, n), l1)
          [] dist = "Binomial" ->
                IF ~i1.ok THEN Rechazo("Los parametros deben ser numeros validos", l1)
                ELSE IF ~f2.ok THEN Rechazo("Los parametros deben ser numeros validos", l2)
                ELSE IF ValorInt(i1.v) <= 0
                     THEN Rechazo("El parametro n debe ser mayor a 0", l2)
                ELSE IF p_fuera_de_rango(f2.v)
                     THEN Rechazo("El parametro p debe estar entre 0 y 1", l2)
                     ELSE Muestra(binomial(g, ValorInt(i1.v), f2.v, n), l2)
          [] dist = "Poisson" ->
                IF ~f1.ok THEN Rechazo("El parametro lambda debe ser un numero valido", l1)
                ELSE IF no_positivo(f1.v)
                     THEN Rechazo("El parametro lambda debe ser mayor a 0", l1)
                     ELSE Muestra(poisson(g, f1.v, n), l1)
          [] dist = "Uniforme" ->
                IF ~f1.ok THEN Rechazo("Los parametros deben ser numeros validos", l1)
                ELSE IF ~f2.ok THEN Rechazo("Los parametros deben ser numeros validos", l2)
                ELSE IF FxLeq(f2.v, f1.v)
                     THEN Rechazo("El parametro a debe ser menor que b", l2)
                     ELSE Muestra(uniforme(g, f1.v, f2.v, n), l2)
          [] dist = "Exponencial" ->
                IF ~f1.ok THEN Rechazo("El parametro lambda debe ser un numero valido", l1)
                ELSE IF no_positivo(f1.v)
                     THEN Rechazo("El parametro lambda debe ser mayor a 0", l1)
                     ELSE Muestra(exponencial(g, f1.v, n), l1)
          [] dist = "Normal" ->
                IF ~f1.ok THEN Rechazo("Los parametros deben ser numeros validos", l1)
                ELSE IF ~f2.ok THEN Rechazo("Los parametros deben ser numeros validos", l2)
                ELSE IF no_positivo(f2.v)
                     THEN Rechazo("La desviacion estandar sigma debe ser mayor a 0", l2)
                     ELSE Muestra(normal(g, f1.v, f2.v, n), l2)

EsContinua(dist) == dist \in {"Uniforme", "Exponencial", "Normal"}

\* ax.hist(datos, ...) takes the range of the bins from np.nanmin and
\* np.nanmax of the data, which skip the nan: np.histogram raises ValueError
\* on a range with an infinity, and on data that are all nan, whose range
\* is taken from the data themselves; a nan next to finite values is left
\* out of the bins
hist_sin_rango(datos) ==
    \/ \E j \in 1..Len(datos) : datos[j] \in {PosInf, NegInf}
    \/ datos # <<>> /\ \A j \in 1..Len(datos) : datos[j] = NaN

\* ax.hist(datos, bins=50) of a continuous sample raises
hist_falla(dist, datos) == EsContinua(dist) /\ hist_sin_rango(datos)

Estado(datos, g, msj, l, muestreo) ==
    [datos |-> datos, generador |-> g, mensaje |-> msj, leido |-> l, muestreo |-> muestreo]

\* the run goes on with the generator the window holds, when it holds one
generador_compartido(semilla, entropia, genact) ==
    IF genact = None THEN GeneradorAleatorios(semilla, entropia) ELSE genact

\* gen = GeneradorAleatorios(semilla): every run builds its generator
generador_de_la_corrida(semilla, entropia, genact) == GeneradorAleatorios(semilla, entropia)

\* generar_datos(): w holds the texts of the entries, entropia what the
\* environment gives a generator built without seed, datos and genact the
\* stored sample and generador_actual[0] before the run
generar_datos(w, entropia, datos, genact) ==
    LET ln == [NadaLeido EXCEPT !.n = w.n]
        n_p == int_py(w.n)
        la == [ln EXCEPT !.auto = w.auto]
        ls == IF w.auto THEN la ELSE [la EXCEPT !.semilla = w.semilla]
        s_p == int_py(w.semilla)
        semilla == IF w.auto \/ w.semilla = "" THEN None ELSE s_p.v
        g == generador_de_la_corrida(semilla, entropia, genact)
        ld == [ls EXCEPT !.dist = w.dist]
    IN  IF ~n_p.ok THEN Estado(datos, genact, MsjInvalidos, ln, FALSE)
        ELSE IF n_fuera_de_rango(ValorInt(n_p.v))
             THEN Estado(datos, genact, MsjRango, ln, FALSE)
        ELSE IF ~w.auto /\ w.semilla # "" /\ ~s_p.ok
             THEN Estado(datos, genact, MsjSemilla, ls, FALSE)
        ELSE LET d == generar_distribucion(g, w.dist, w, ValorInt(n_p.v), ld)
             IN  IF ~d.ok THEN Estado(datos, g, d.mensaje, d.leido, FALSE)
                 ELSE IF hist_falla(w.dist, d.datos)
                      THEN Estado(d.datos, d.g, MsjInvalidos, d.leido, TRUE)
                      ELSE Estado(d.datos, d.g, MsjExito, d.leido, TRUE)

\* the generation window as it is opened
InitGeneracion ==
    /\ datos_generados = <<>>
    /\ generador_actual = None
    /\ mensaje = ""
    /\ leido = [NadaLeido EXCEPT !.n = SinLeer] @@ [muestreo |-> FALSE]
    /\ generaciones = 0

\* ------------------------------------------------------------------------
\* ventana_prueba_ajuste: loading a sample, realizar_prueba_local
\* ------------------------------------------------------------------------
MsjCargados == "Se cargaron los datos correctamente"
MsjSinValidosArchivo == "No se encontraron datos validos en el archivo"
MsjIngresados == "Se ingresaron los datos correctamente"
MsjSinValidos == "No se encontraron datos validos"
MsjErrorProcesar == "Error al procesar datos"
MsjSinDatos == "Debe cargar o ingresar datos primero"
MsjAlphaRango == "El nivel de significancia debe estar entre 0 y 1"
MsjAlphaInvalido == "Nivel de significancia invalido"
MsjErrorPrueba == "Error al realizar la prueba"

\* numeros: the values of the file that float() accepts, in order; the
\* others are skipped
RECURSIVE numeros_archivo(_)
numeros_archivo(tokens) ==
    IF tokens = <<>> THEN <<>>
    ELSE LET f == float_py(Head(tokens))
         IN  (IF f.ok THEN <<f.v>> ELSE <<>>) \o numeros_archivo(Tail(tokens))

\* cargar_archivo() on a file holding the values tokens
cargar_archivo(tokens, datos) ==
    LET numeros == numeros_archivo(tokens)
    IN  IF numeros # <<>>
        THEN [datos |-> numeros, mensaje |-> MsjCargados]
        ELSE [datos |-> datos, mensaje |-> MsjSinValidosArchivo]

\* procesar_datos() on the typed values tokens: one value float() rejects
\* raises out of the list comprehension
procesar_datos(tokens, datos) ==
    IF \E j \in 1..Len(tokens) : ~float_py(tokens[j]).ok
    THEN [datos |-> datos, mensaje |-> MsjErrorProcesar]
    ELSE IF tokens # <<>>
         THEN [datos |-> [j \in 1..Len(tokens) |-> float_py(tokens[j]).v],
               mensaje |-> MsjIngresados]
         ELSE [datos |-> datos, mensaje |-> MsjSinValidos]

\* if alpha <= 0 or alpha >= 1
alpha_fuera_de_rango(alpha) == FxLeq(alpha, FxInt(0)) \/ FxLeq(FxInt(1), alpha)

\* stats.norm.fit, stats.expon.fit and stats.uniform.fit raise on a sample
\* with a non-finite value; np.mean (Poisson) does not
fit_falla(distribucion, datos) ==
    distribucion # "Poisson" /\ \E j \in 1..Len(datos) : ~IsFinite(datos[j])

\* if ks_pvalue > alpha
decision_ks_no_estricta(ks_pvalue, alpha) ==
    IF FxLeq(alpha, ks_pvalue) THEN "AJUSTA" ELSE "NO AJUSTA"

decision_ks(ks_pvalue, alpha) ==
    IF FxLess(alpha, ks_pvalue) THEN "AJUSTA" ELSE "NO AJUSTA"

\* the least n at which int(1 + 3.322 * np.log10(n)) reaches 1, 2, ..., 16
UmbralesSturges ==
    <<1, 2, 4, 8, 16, 32, 64, 128, 256, 512, 1024, 2048, 4096, 8191, 16381, 32761>>

\* k = int(1 + 3.322 * np.log10(len(datos))), exact up to k = 16
sturges(n) == Cardinality({j \in 1..Len(UmbralesSturges) : UmbralesSturges[j] <= n})

Max(x, y) == IF x >= y THEN x ELSE y

Min(x, y) == IF x <= y THEN x ELSE y

\* k = max(5, min(k, 15))
num_intervalos(n) == Max(5, Min(sturges(n), 15))

\* a finite datum that is a multiple of 0.5, in halves
EnMedios(x) == 2 * x.i + (IF x.hi = W16 \div 2 THEN 1 ELSE 0)

MinimoEnMedios(datos) ==
    CHOOSE v \in {EnMedios(datos[j]) : j \in 1..Len(datos)} :
        \A j \in 1..Len(datos) : v <= EnMedios(datos[j])

MaximoEnMedios(datos) ==
    CHOOSE v \in {EnMedios(datos[j]) : j \in 1..Len(datos)} :
        \A j \in 1..Len(datos) : v >= EnMedios(datos[j])

\* np.histogram(datos, bins=k): k equal-width bins over [min, max] (over
\* [min - 0.5, max + 0.5] when min = max), the last one closed; raises on a
\* non-finite value.  The edges are held in units of 1/(2k).
histogram(datos, k) ==
    IF \E j \in 1..Len(datos) : ~IsFinite(datos[j])
    THEN [ok |-> FALSE]
    ELSE LET mn == MinimoEnMedios(datos)
             mx == MaximoEnMedios(datos)
             first_edge == IF mn = mx THEN mn - 1 ELSE mn
             last_edge == IF mn = mx THEN mx + 1 ELSE mx
             ancho == last_edge - first_edge
             indice(x) == IF x = last_edge THEN k
                          ELSE ((x - first_edge) * k) \div ancho + 1
         IN  [ok |-> TRUE,
              observed |-> [i \in 1..k |->
                  Cardinality({j \in 1..Len(datos) : indice(EnMedios(datos[j])) = i})],
              bins |-> [i \in 1..(k + 1) |-> k * first_edge + (i - 1) * ancho]]

\* while np.any(expected < 5) and len(expected) > 2: the expected
\* frequencies are floats, and no nan is below 5
hay_que_combinar(e) == (\E i \in 1..Len(e) : FxLess(e[i], FxInt(5))) /\ Len(e) > 2

\* idx = np.argmin(expected): the first position of the minimum, counted
\* from 1; the position of the first nan when there is one
argmin_ultimo(e) ==
    CHOOSE i \in 1..Len(e) :
        IF \E j \in 1..Len(e) : e[j] = NaN
        THEN e[i] = NaN /\ \A j \in (i + 1)..Len(e) : e[j] # NaN
        ELSE /\ \A j \in 1..Len(e) : FxLeq(e[i], e[j])
             /\ \A j \in (i + 1)..Len(e) : FxLess(e[i], e[j])

argmin(e) ==
    CHOOSE i \in 1..Len(e) :
        IF \E j \in 1..Len(e) : e[j] = NaN
        THEN e[i] = NaN /\ \A j \in 1..(i - 1) : e[j] # NaN
        ELSE /\ \A j \in 1..Len(e) : FxLeq(e[i], e[j])
             /\ \A j \in 1..(i - 1) : FxLess(e[i], e[j])

\* np.delete(s, i - 1): the position before the one asked for goes
quitar_el_anterior(s, i) == SubSeq(s, 1, i - 2) \o SubSeq(s, i, Len(s))

\* np.delete(s, i), i counted from 1
Quitar(s, i) == SubSeq(s, 1, i - 1) \o SubSeq(s, i + 1, Len(s))

\* one pass of the loop body on observed, expected and bins
combinar(m) ==
    LET i == argmin(m.expected)
        n == Len(m.expected)
    IN  IF i = 1
        THEN [observed |-> Tail([m.observed EXCEPT ![2] = @ + m.observed[1]]),
              expected |-> Tail([m.expected EXCEPT ![2] = FxSuma(@, m.expected[1])]),
              bins |-> Tail(m.bins)]
        ELSE IF i = n
        THEN [observed |-> SubSeq([m.observed EXCEPT ![n - 1] = @ + m.observed[n]], 1, n - 1),
              expected |-> SubSeq([m.expected EXCEPT ![n - 1] = FxSuma(@, m.expected[n])], 1, n - 1),
              bins |-> SubSeq(m.bins, 1, Len(m.bins) - 1)]
        ELSE [observed |-> Quitar([m.observed EXCEPT ![i - 1] = @ + m.observed[i]], i),
              expected |-> Quitar([m.expected EXCEPT ![i - 1] = FxSuma(@, m.expected[i])], i),
              bins |-> Quitar(m.bins, i + 1)]

\* the whole loop
RECURSIVE combinar_intervalos(_)
combinar_intervalos(m) ==
    IF hay_que_combinar(m.expected) THEN combinar_intervalos(combinar(m)) ELSE m

\* df = len(observed) - 1 - (number of estimated parameters); df = max(1, df)
grados_libertad_sin_piso(distribucion, intervalos) ==
    intervalos - 1 - (IF distribucion \in {"Normal", "Uniforme"} THEN 2 ELSE 1)

grados_libertad(distribucion, intervalos) ==
    Max(1, intervalos - 1 - (IF distribucion \in {"Normal", "Uniforme"} THEN 2 ELSE 1))

\* if chi2_pvalue > alpha
decision_chi(chi2_pvalue, alpha) ==
    IF FxLess(alpha, chi2_pvalue) THEN "AJUSTA" ELSE "NO AJUSTA"

\* the final conclusion written in the text
conclusion_final(conclusion_ks, conclusion_chi) ==
    IF conclusion_ks = "AJUSTA" /\ conclusion_chi = "AJUSTA" THEN "SE AJUSTAN"
    ELSE IF conclusion_ks = "NO AJUSTA" /\ conclusion_chi = "NO AJUSTA" THEN "NO SE AJUSTAN"
    ELSE "NO CONCUERDAN"

VerdeClaro == "#e8f5e9"
RojoClaro == "#ffebee"
Amarillo == "#fff9c4"
ColorInicial == "#d4a574"

\* ax.set_facecolor(...) at the end of the plot
color_fondo(conclusion_ks, conclusion_chi) ==
    IF conclusion_ks = "AJUSTA" /\ conclusion_chi = "AJUSTA" THEN VerdeClaro
    ELSE IF conclusion_ks = "NO AJUSTA" /\ conclusion_chi = "NO AJUSTA" THEN RojoClaro
    ELSE Amarillo

Encabezado(distribucion, alpha_txt, n) ==
    [sec |-> "encabezado", distribucion |-> distribucion, alpha |-> alpha_txt, n |-> n]

Resultado(texto, graf, msj, alpha_txt) ==
    [texto |-> texto, grafico |-> graf, mensaje |-> msj, alpha_leido |-> alpha_txt]

\* realizar_prueba_local(): datos is datos_prueba, alpha_txt and distribucion
\* the contents of alpha_var and dist_var, lib what scipy and matplotlib
\* answer during the run (the p-values, whether each statistic exceeds its
\* critical value, the expected frequencies of the histogram bins, whether
\* drawing the plot raises), texto and graf the results text and the axes
\* before the run.  mensaje is the messagebox the run shows ("" for none),
\* alpha_leido the text it read from alpha_var (SinLeer if it read none)
realizar_prueba_local(datos, alpha_txt, distribucion, lib, texto, graf) ==
    LET a == float_py(alpha_txt)
        alpha == a.v
        limpio == [estado |-> "limpio", fondo |-> graf.fondo, titulo |-> <<>>]
        t_desc == <<Encabezado(distribucion, alpha_txt, Len(datos)),
                    [sec |-> "descriptivos"]>>
        conclusion_ks == decision_ks(lib.ks_pvalue, alpha)
        t_ks == t_desc \o
                <<[sec |-> "parametros", distribucion |-> distribucion],
                  [sec |-> "ks", excede |-> lib.ks_excede, pvalor |-> lib.ks_pvalue,
                   decision |-> conclusion_ks],
                  [sec |-> "chi_titulo"]>>
        k == num_intervalos(Len(datos))
        h == histogram(datos, k)
        m == combinar_intervalos(
                 [observed |-> h.observed, expected |-> lib.expected, bins |-> h.bins])
        df == grados_libertad(distribucion, Len(m.observed))
        conclusion_chi == decision_chi(lib.chi2_pvalue, alpha)
        t_fin == t_ks \o
                 <<[sec |-> "tabla", observed |-> m.observed, expected |-> m.expected,
                    bins |-> m.bins, k |-> k],
                   [sec |-> "chi", df |-> df, excede |-> lib.chi2_excede,
                    pvalor |-> lib.chi2_pvalue, decision |-> conclusion_chi],
                   [sec |-> "conclusion",
                    veredicto |-> conclusion_final(conclusion_ks, conclusion_chi)]>>
    IN  IF datos = <<>> THEN Resultado(texto, graf, MsjSinDatos, SinLeer)
        ELSE IF ~a.ok THEN Resultado(texto, graf, MsjAlphaInvalido, alpha_txt)
        ELSE IF alpha_fuera_de_rango(alpha)
             THEN Resultado(texto, graf, MsjAlphaRango, alpha_txt)
        ELSE IF fit_falla(distribucion, datos)
             THEN Resultado(t_desc, limpio, MsjErrorPrueba, alpha_txt)
        ELSE IF ~h.ok THEN Resultado(t_ks, limpio, MsjErrorPrueba, alpha_txt)
        ELSE IF lib.grafico_falla
             THEN Resultado(t_fin, [limpio EXCEPT !.estado = "parcial"],
                            MsjErrorPrueba, alpha_txt)
        ELSE Resultado(t_fin,
                       [estado |-> "dibujado",
                        fondo |-> color_fondo(conclusion_ks, conclusion_chi),
                        titulo |-> <<conclusion_ks, conclusion_chi>>],
                       "", alpha_txt)

\* the fit window as it is opened
InitPrueba ==
    /\ datos_prueba = <<>>
    /\ resultados_text = <<>>
    /\ grafico = [estado |-> "inicial", fondo |-> ColorInicial, titulo |-> <<>>]
    /\ mensaje_prueba = ""
    /\ alpha_leido = SinLeer

\* no run is inside the merge loop
MergeReposo ==
    /\ observed = <<>>
    /\ expected = <<>>
    /\ bins = <<>>
    /\ fase = "reposo"

\* ------------------------------------------------------------------------
\* ventana_monte_carlo
\* ------------------------------------------------------------------------
MsjPiRango == "Ingrese N entre 1 y 2,000,000"
MsjErrorSimulacion == "Error en simulacion"

\* A * C on numbers in digits of base 2^15
RECURSIVE BigMul(_, _)
BigMul(A, C) ==
    IF C = <<>> THEN <<0>>
    ELSE BigAdd(BigMulSmall(A, Head(C), 0), <<0>> \o BigMul(A, Tail(C)), 0)

BigEsCero(A) == \A j \in 1..Len(A) : A[j] = 0

\* A * 2^s
BigShl(A, s) == [j \in 1..(s \div 15) |-> 0] \o BigMulSmall(A, 2^(s % 15), 0)

\* A > C for numbers of any length
BigMayor(A, C) ==
    LET n == Max(Len(A), Len(C))
        pad(X) == X \o [j \in 1..(n - Len(X)) |-> 0]
    IN  BigGreater(pad(A), pad(C))

\* the double nearest to the integer A (ties to even), as an integer: the
\* result of a float addition whose exact value is A * 2^-64
redondear_53(A) ==
    IF BigEsCero(A) \/ BigBits(A) <= 53 THEN A
    ELSE LET s == BigBits(A) - 53
             Q == BigShr(A, s)
             up == BigBit(A, s - 1) = 1 /\ (BigLowBits(A, s - 1) \/ Q[1] % 2 = 1)
         IN  BigShl(IF up THEN BigAdd(Q, <<1>>, 0) ELSE Q, s)

\* v ** 2 as pow() of the C library returns it, for the exact square
\* A * 2^-64: A when it is a double, else the nearest double, unless A lies
\* within 2^-5 of a unit in the last place of the middle of two doubles.
\* There pow(), accurate to 0.52 ulp and not correctly rounded, returns the
\* double above or the one below: arriba tells which
pow_2(A, arriba) ==
    IF BigEsCero(A) \/ BigBits(A) <= 53 THEN A
    ELSE LET s == BigBits(A) - 53
             Q == BigShr(A, s)
             encima == /\ BigBit(A, s - 1) = 1
                       /\ \A j \in Max(s - 5, 0)..(s - 2) : BigBit(A, j) = 0
             debajo == /\ s >= 5
                       /\ BigBit(A, s - 1) = 0
                       /\ \A j \in (s - 5)..(s - 2) : BigBit(A, j) = 1
         IN  IF encima \/ debajo
             THEN BigShl(IF arriba THEN BigAdd(Q, <<1>>, 0) ELSE Q, s)
             ELSE redondear_53(A)

\* |x - 0.5| * 2^32 for a return value x of lcg(): the subtraction is exact
distancia_al_centro(x) ==
    LET arriba == x.hi >= W16 \div 2
        hi == IF arriba THEN x.hi - W16 \div 2
              ELSE IF x.lo = 0 THEN W16 \div 2 - x.hi ELSE W16 \div 2 - x.hi - 1
        lo == IF arriba \/ x.lo = 0 THEN x.lo ELSE W16 - x.lo
    IN  <<lo % B15, (lo \div B15) + 2 * (hi % (B15 \div 2)), hi \div (B15 \div 2)>>

Cuarto == <<0, 0, 0, 0, 4>>          \* 0.25 * 2^64

\* the test with the squares taken from the corner (0, 0)
dentro_del_circulo_esquina(x, y, arriba_x, arriba_y) ==
    LET X == <<x.lo % B15, (x.lo \div B15) + 2 * (x.hi % (B15 \div 2)), x.hi \div (B15 \div 2)>>
        Y == <<y.lo % B15, (y.lo \div B15) + 2 * (y.hi % (B15 \div 2)), y.hi \div (B15 \div 2)>>
    IN  ~BigMayor(redondear_53(BigAdd(pow_2(BigMul(X, X), arriba_x),
                                      pow_2(BigMul(Y, Y), arriba_y), 0)), Cuarto)

\* (x - 0.5)**2 + (y - 0.5)**2 <= 0.25 in double precision, in units of
\* 2^-64; arriba_x and arriba_y are the answers of pow() for the two squares
dentro_del_circulo(x, y, arriba_x, arriba_y) ==
    LET X == distancia_al_centro(x)
        Y == distancia_al_centro(y)
    IN  ~BigMayor(redondear_53(BigAdd(pow_2(BigMul(X, X), arriba_x),
                                      pow_2(BigMul(Y, Y), arriba_y), 0)), Cuarto)

\* for i in range(N): x = gen.lcg(); y = gen.lcg(); ...  libm holds the
\* draws whose square pow() rounds upwards when it is free to
RECURSIVE pi_loop(_, _, _, _)
pi_loop(g, N, dentro, libm) ==
    IF N <= 0 THEN [g |-> g, dentro |-> dentro]
    ELSE LET rx == lcg(g)
             ry == lcg(rx.g)
         IN  pi_loop(ry.g, N - 1,
                     dentro + (IF dentro_del_circulo(rx.ret, ry.ret, rx.g.draws \in libm,
                                                     ry.g.draws \in libm)
                               THEN 1 ELSE 0),
                     libm)

n_pi_fuera_de_rango(N) == N <= 0 \/ N > 2000000

\* the double nearest to num / den
Cociente(num, den) == [num |-> num, den |-> den]

\* an empty results text, and resultados_actuales before any experiment
SinResultados == [titulo |-> ""]

\* what a run leaves in the window: the results text, resultados_actuales
\* (titulo and datos are written together from the same text), the axes and
\* the messagebox the run has shown ("" for none)
Ventana(texto, actuales, ax, msj) ==
    [texto |-> texto, actuales |-> actuales, ejes |-> ax, mensaje |-> msj]

\* the text simular_pi() writes; gen is auxiliary: the generator of the run
\* as the run leaves it
InformePi(N, r) ==
    [titulo |-> "Estimacion de pi", pi_est |-> Cociente(4 * r.dentro, N),
     dentro |-> r.dentro, fuera |-> N - r.dentro, total |-> N, gen |-> r.g]

\* simular_pi(): entrada is the text of the entry, entropia what the
\* environment gives the generator, libm what pow() answers, v the window
\* before the run
simular_pi(entrada, entropia, libm, v) ==
    LET N_p == int_py(entrada)
        N == ValorInt(N_p.v)
    IN  IF ~N_p.ok THEN [v EXCEPT !.mensaje = MsjErrorSimulacion]
        ELSE IF n_pi_fuera_de_rango(N) THEN [v EXCEPT !.mensaje = MsjPiRango]
        ELSE LET r == pi_loop(GeneradorAleatorios(None, entropia), N, 0, libm)
             IN  Ventana(InformePi(N, r), InformePi(N, r), "pi", "")

\* while cap > 0 and rondas <= 10000
sigue_jugando_una_mas(cap, rondas) == cap > 0 /\ rondas <= 10000

\* while cap > 0 and rondas < 10000
sigue_jugando(cap, rondas) == cap > 0 /\ rondas < 10000

\* if gen.lcg() < prob_ganar: cap += apuesta, else: cap -= apuesta
ronda(cap, apuesta, prob_ganar, u) ==
    IF FxLess(u, prob_ganar) THEN cap + apuesta ELSE cap - apuesta

\* sum(1 for c in capitales_finales if c == 0)
ruinas(capitales_finales) ==
    Cardinality({j \in 1..Len(capitales_finales) : capitales_finales[j] = 0})

RECURSIVE MaxSeq(_)
MaxSeq(q) == IF Len(q) = 1 THEN q[1] ELSE Max(Head(q), MaxSeq(Tail(q)))

\* the text simular_ruina() writes
InformeRuina(m) ==
    [titulo |-> "Ruina del Jugador", capital |-> m.capital, apuesta |-> m.apuesta,
     prob_ganar |-> m.prob_ganar, sims |-> m.sims,
     ruinas |-> ruinas(m.capitales_finales),
     prob_ruina |-> Cociente(ruinas(m.capitales_finales), m.sims),
     capital_promedio |-> Cociente(SumSeq(m.capitales_finales), m.sims),
     capital_maximo |-> MaxSeq(m.capitales_finales),
     rondas_promedio |-> Cociente(SumSeq(m.rondas_totales), m.sims),
     gen |-> m.gen]

\* simular_ruina() after the loop over the players: m holds the locals.
\* ruinas / sims raises on sims = 0 after the axes were redrawn; with no
\* player np.max raises after the results text was deleted
ruina_fin(m, v) ==
    IF m.sims = 0 THEN [v EXCEPT !.ejes = "ruina", !.mensaje = MsjErrorSimulacion]
    ELSE IF m.capitales_finales = <<>>
         THEN [v EXCEPT !.ejes = "ruina", !.texto = SinResultados,
                        !.mensaje = MsjErrorSimulacion]
         ELSE Ventana(InformeRuina(m), InformeRuina(m), "ruina", "")

\* x as a number of base 2^15 digits, in units of 2^-32
EnDigitos(x) ==
    <<x.lo % B15, (x.lo \div B15) + 2 * (x.hi % (B15 \div 2)), x.hi \div (B15 \div 2)>>

\* try: y_func = eval(funcion_str, {"x": x, "np": np}); y <= y_func, for x
\* and y returned by lcg(): "dentro", "fuera", or "error" when eval raises;
\* arriba is the answer of pow() for x**2
bajo_la_curva(funcion_str, x, y, arriba) ==
    CASE funcion_str = "x" -> IF FxLeq(y, x) THEN "dentro" ELSE "fuera"
      [] funcion_str = "x**2" ->
            IF BigMayor(BigShl(EnDigitos(y), 32),
                        pow_2(BigMul(EnDigitos(x), EnDigitos(x)), arriba))
            THEN "fuera" ELSE "dentro"
      [] funcion_str = "1/x" -> IF x = FxInt(0) THEN "error" ELSE "dentro"
      [] funcion_str = "1/0" -> "error"

\* the body of the loop of simular_integral(): dentro after the point (x, y)
integral_punto(funcion_str, x, y, dentro, arriba) ==
    IF bajo_la_curva(funcion_str, x, y, arriba) = "dentro" THEN dentro + 1 ELSE dentro

\* the text simular_integral() writes
InformeIntegral(m) ==
    [titulo |-> "Integral Definida", funcion |-> m.funcion_str, puntos |-> m.N,
     area_est |-> Cociente(m.dentro, m.N), dentro |-> m.dentro, fuera |-> m.N - m.dentro,
     gen |-> m.gen]

\* simular_integral() after the loop: dentro / N raises on N = 0
integral_fin(m, v) ==
    IF m.N = 0 THEN [v EXCEPT !.mensaje = MsjErrorSimulacion]
    ELSE Ventana(InformeIntegral(m), InformeIntegral(m), "integral", "")

\* simular_ruina() up to the loop over the players: the entries are parsed
\* in the order capital, apuesta, prob_ganar, sims and the generator is built
ruina_inicio(c, entropia) ==
    LET capital == int_py(c.capital)
        apuesta == int_py(c.apuesta)
        prob_ganar == float_py(c.prob_ganar)
        sims == int_py(c.sims)
    IN  IF ~capital.ok \/ ~apuesta.ok \/ ~prob_ganar.ok \/ ~sims.ok THEN ValueError
        ELSE Valor([pc |-> "ruina_for",
                    capital |-> ValorInt(capital.v), apuesta |-> ValorInt(apuesta.v),
                    prob_ganar |-> prob_ganar.v, sims |-> ValorInt(sims.v),
                    gen |-> GeneradorAleatorios(None, entropia),
                    cap |-> 0, rondas |-> 0,
                    capitales_finales |-> <<>>, rondas_totales |-> <<>>])

\* simular_integral() up to the loop over the points
integral_inicio(entrada, funcion_str, entropia) ==
    LET N == int_py(entrada)
    IN  IF ~N.ok THEN ValueError
        ELSE Valor([pc |-> "integral", N |-> ValorInt(N.v), funcion_str |-> funcion_str,
                    gen |-> GeneradorAleatorios(None, entropia), i |-> 0, dentro |-> 0])

\* no experiment is running
Reposo == [pc |-> "reposo"]

\* the Monte Carlo window as it is opened
VentanaInicial == Ventana(SinResultados, SinResultados, "inicial", "")

InitMonteCarlo ==
    /\ simulacion = Reposo
    /\ texto_simulacion = VentanaInicial.texto
    /\ resultados_actuales = VentanaInicial.actuales
    /\ ejes = VentanaInicial.ejes
    /\ mensaje_simulacion = VentanaInicial.mensaje
    /\ simulaciones = 0

\* no call of poisson() is being followed
SinPoisson == knuth = [pc |-> "reposo"]

\* ------------------------------------------------------------------------
\* SpecGen: two GeneradorAleatorios instances used through their methods
\* ------------------------------------------------------------------------
Inst == {1, 2}

\* seeds given to __init__: 0, -1, 2^32 + 5, and 634785765, the state that
\* precedes state 0 in the recurrence
Semillas == {Limbs(0, 0), Limbs(-1, 65535), Limbs(65536, 5), Limbs(9686, 4069)}

\* values of (tiempo ^ pid ^ random_bytes) % (2**31 - 1): 7 and 2^31 - 2
Entropias == {Limbs(0, 7), Limbs(32767, 65534)}

Medio == Fx(0, W16 \div 2, 0)      \* the float 0.5

Cuentas == 1..MaxN

Llamada(metodo, params, n, antes, r) ==
    [metodo |-> metodo, params |-> params, n |-> n, antes |-> antes, ret |-> r.ret]

\* the instance takes the result r of a method call, unless the call leaves
\* the explored part of the stream
Registrar(i, metodo, params, n, r) ==
    /\ llamadas[i] < MaxLlamadas
    /\ r.g.draws <= MaxDraws
    /\ llamadas' = [llamadas EXCEPT ![i] = @ + 1]
    /\ gen' = [gen EXCEPT ![i] = r.g]
    /\ ultima' = [ultima EXCEPT ![i] = Llamada(metodo, params, n, gen[i], r)]
    /\ UNCHANGED <<semilla_arg, varsGeneracion, varsPrueba, varsMerge, varsMonteCarlo, knuth>>

Construir(i) ==
    /\ gen[i] = None
    /\ \E s \in Semillas \cup {None}, e \in Entropias :
          /\ gen' = [gen EXCEPT ![i] = GeneradorAleatorios(s, e)]
          /\ semilla_arg' = [semilla_arg EXCEPT ![i] = s]
    /\ UNCHANGED <<ultima, llamadas, varsGeneracion, varsPrueba, varsMerge, varsMonteCarlo, knuth>>

LlamarLcg(i) ==
    /\ gen[i] # None
    /\ LET r == lcg(gen[i]) IN Registrar(i, "lcg", <<>>, 1, [g |-> r.g, ret |-> <<r.ret>>])

LlamarUniforme(i) ==
    /\ gen[i] # None
    /\ \E ab \in {<<FxInt(0), FxInt(1)>>, <<FxInt(2), FxInt(5)>>}, n \in Cuentas :
          Registrar(i, "uniforme", ab, n, uniforme(gen[i], ab[1], ab[2], n))

LlamarExponencial(i) ==
    /\ gen[i] # None
    /\ \E lambd \in {FxInt(1)}, n \in Cuentas :
          Registrar(i, "exponencial", <<lambd>>, n, exponencial(gen[i], lambd, n))

LlamarNormal(i) ==
    /\ gen[i] # None
    /\ \E ms \in {<<FxInt(0), FxInt(1)>>}, n \in Cuentas :
          Registrar(i, "normal", ms, n, normal(gen[i], ms[1], ms[2], n))

LlamarBernoulli(i) ==
    /\ gen[i] # None
    /\ \E p \in {FxInt(0), Medio, FxInt(1)}, n \in Cuentas :
          Registrar(i, "bernoulli", <<p>>, n, bernoulli(gen[i], p, n))

LlamarBinomial(i) ==
    /\ gen[i] # None
    /\ \E n_trials \in {2, 3}, p \in {Medio}, n \in Cuentas :
          Registrar(i, "binomial", <<n_trials, p>>, n, binomial(gen[i], n_trials, p, n))

LlamarPoisson(i) ==
    /\ gen[i] # None
    /\ \E lambd \in {FxInt(1), Diminuto}, n \in Cuentas :
          Registrar(i, "poisson", <<lambd>>, n, poisson(gen[i], lambd, n))

InitInstancias ==
    /\ gen = [i \in Inst |-> None]
    /\ semilla_arg = [i \in Inst |-> None]
    /\ ultima = [i \in Inst |-> None]
    /\ llamadas = [i \in Inst |-> 0]

InitGen == InitInstancias /\ InitGeneracion /\ InitPrueba /\ MergeReposo /\ InitMonteCarlo /\ SinPoisson

NextGen ==
    \E i \in Inst :
        \/ Construir(i)
        \/ LlamarLcg(i)
        \/ LlamarUniforme(i)
        \/ LlamarExponencial(i)
        \/ LlamarNormal(i)
        \/ LlamarBernoulli(i)
        \/ LlamarBinomial(i)
        \/ LlamarPoisson(i)

SpecGen == InitGen /\ [][NextGen]_vars

\* ------------------------------------------------------------------------
\* SpecGeneracion: the generation window
\* ------------------------------------------------------------------------
Digito == [k \in 0..4 |-> CASE k = 0 -> "0" [] k = 1 -> "1" [] k = 2 -> "2"
                               [] k = 3 -> "3" [] k = 4 -> "4"]

\* the Auto checkbox and the seed entry, accepted and rejected
SemillasValidas ==
    {[auto |-> TRUE, texto |-> ""], [auto |-> FALSE, texto |-> "634785765"]}

SemillasInvalidas == {[auto |-> FALSE, texto |-> "abc"]}

\* distribution, param1, param2
DistParams ==
    {<<"Bernoulli", "0.5", "">>, <<"Bernoulli", "1.5", "">>, <<"Bernoulli", "-0.5", "">>,
     <<"Bernoulli", "abc", "">>,
     <<"Binomial", "2", "0.5">>, <<"Binomial", "0", "0.5">>, <<"Binomial", "2", "1.5">>,
     <<"Binomial", "0.5", "0.5">>,
     <<"Poisson", "1", "">>, <<"Poisson", "0", "">>, <<"Poisson", "1e-17", "">>,
     <<"Uniforme", "0", "1">>, <<"Uniforme", "1", "1">>, <<"Uniforme", "2", "1">>,
     <<"Exponencial", "1", "">>, <<"Exponencial", "-1", "">>,
     <<"Normal", "0", "1">>, <<"Normal", "0", "0">>, <<"Normal", "0", "-1">>}

\* the entries as the window opens them
EntradaBase ==
    [n |-> "1", auto |-> TRUE, semilla |-> "", dist |-> "Bernoulli",
     param1 |-> "0.5", param2 |-> ""]

\* the contents of the entries explored: a count that is rejected, a seed
\* that is rejected, and every distribution with accepted and rejected
\* parameters under an accepted count and seed
Entradas ==
    {[EntradaBase EXCEPT !.n = t] : t \in {"0", "1000001", "abc"}}
    \cup {[EntradaBase EXCEPT !.n = Digito[k], !.auto = sem.auto, !.semilla = sem.texto] :
             k \in 1..MaxN, sem \in SemillasInvalidas}
    \cup {[n |-> Digito[k], auto |-> sem.auto, semilla |-> sem.texto,
           dist |-> dp[1], param1 |-> dp[2], param2 |-> dp[3]] :
             k \in 1..MaxN, sem \in SemillasValidas, dp \in DistParams}

\* a run of generar_datos on the entries w
Corrida(w, e) ==
    LET r == generar_datos(w, e, datos_generados, generador_actual)
    IN  /\ datos_generados' = r.datos
        /\ generador_actual' = r.generador
        /\ mensaje' = r.mensaje
        /\ leido' = r.leido @@ [muestreo |-> r.muestreo]
        /\ generaciones' = generaciones + 1
        /\ UNCHANGED <<varsGen, varsPrueba, varsMerge, varsMonteCarlo, knuth>>

GenerarDatos ==
    /\ generaciones < MaxGeneraciones
    /\ \E w \in Entradas, e \in Entropias : Corrida(w, e)

NextGeneracion == GenerarDatos

\* the program with its windows just opened
InitVentanas == InitInstancias /\ InitGeneracion /\ InitPrueba /\ MergeReposo /\ InitMonteCarlo /\ SinPoisson

SpecGeneracion == InitVentanas /\ [][NextGeneracion]_vars

\* ------------------------------------------------------------------------
\* SpecPrueba: the fit window
\* ------------------------------------------------------------------------
\* files chosen in cargar_archivo, as the values they hold: no number, 23
\* numbers and a text, a non-finite number
Archivos ==
    {<<"abc">>,
     <<"1", "2", "3", "4", "2", "3", "2", "3", "abc", "1", "2", "3", "4",
       "2", "3", "2", "3", "1", "2", "3", "4", "2", "3", "2">>,
     <<"1", "inf", "2">>}

\* values typed in the manual entry window
Manuales ==
    {<<>>,
     <<"1", "abc">>,
     <<"1", "2", "3", "4", "2", "3", "2", "3", "1", "2", "3", "4",
       "2", "3", "2", "3", "1", "2", "3", "4", "2", "3", "2">>}

\* contents of alpha_var, accepted and rejected
AlphaTextos == {"0.25", "nan", "0", "1", "1.5", "-0.5", "abc"}

Distribuciones == {"Normal", "Exponencial", "Uniforme", "Poisson"}

\* p-values below, at and above alpha = 0.25
PValores == {Fx(0, W16 \div 8, 0), Fx(0, W16 \div 4, 0), Fx(0, W16 \div 2, 0)}

\* a vector of expected frequencies that are whole numbers
Frecuencias(e) == [i \in 1..Len(e) |-> FxInt(e[i])]

\* the expected frequencies of k bins under a fitted scale of 0 (a constant
\* sample): the cdf is nan at every edge
SinEscala(k) == [i \in 1..k |-> NaN]

\* expected frequencies of five bins: none below 5, some below 5, all
\* the mass in the last bin, and all nan
Esperados ==
    {Frecuencias(<<6, 6, 6, 6, 6>>), Frecuencias(<<0, 2, 7, 2, 0>>),
     Frecuencias(<<0, 0, 0, 0, 3>>), SinEscala(5)}

BibliotecaBase ==
    [ks_pvalue |-> Fx(0, W16 \div 2, 0), ks_excede |-> FALSE,
     expected |-> Frecuencias(<<6, 6, 6, 6, 6>>),
     chi2_pvalue |-> Fx(0, W16 \div 2, 0), chi2_excede |-> FALSE,
     grafico_falla |-> FALSE]

\* what the libraries answer in a run: every pair of p-values, and the
\* statistics above their critical values with p-values on each side of alpha
BibliotecasPValores ==
    {[BibliotecaBase EXCEPT !.ks_pvalue = p, !.chi2_pvalue = q] :
         p \in PValores, q \in PValores \cup {NaN}}
    \cup {[BibliotecaBase EXCEPT !.ks_pvalue = p, !.chi2_pvalue = p,
                                 !.ks_excede = TRUE, !.chi2_excede = TRUE] :
              p \in PValores}

\* every expected vector, and a plot that raises
BibliotecasEsperados ==
    {[BibliotecaBase EXCEPT !.expected = e] : e \in Esperados}

BibliotecaSinGrafico == [BibliotecaBase EXCEPT !.grafico_falla = TRUE]

\* the runs explored: every content of alpha_var, every answer of the
\* libraries on p-values, every distribution with every expected vector, and
\* runs whose plot raises
Corridas ==
    {[alpha |-> t, distribucion |-> "Normal", lib |-> BibliotecaBase] : t \in AlphaTextos}
    \cup {[alpha |-> "0.25", distribucion |-> "Normal", lib |-> l] :
              l \in BibliotecasPValores}
    \cup {[alpha |-> "0.25", distribucion |-> d, lib |-> l] :
              d \in Distribuciones, l \in BibliotecasEsperados}
    \cup {[alpha |-> "0.25", distribucion |-> d, lib |-> BibliotecaSinGrafico] :
              d \in {"Normal", "Poisson"}}

\* exportar_resultados(): the warning shown and the text written to the file
\* the user chose (nothing is written when the results text is empty)
exportar_resultados(texto) ==
    IF texto = <<>> THEN [mensaje |-> "No hay resultados para exportar", archivo |-> <<>>]
    ELSE [mensaje |-> "", archivo |-> texto]

CargarArchivo ==
    /\ \E tokens \in Archivos :
          LET r == cargar_archivo(tokens, datos_prueba)
          IN  /\ datos_prueba' = r.datos
              /\ mensaje_prueba' = r.mensaje
    /\ UNCHANGED <<resultados_text, grafico, alpha_leido, varsGen, varsGeneracion, varsMerge, varsMonteCarlo, knuth>>

ProcesarDatos ==
    /\ \E tokens \in Manuales :
          LET r == procesar_datos(tokens, datos_prueba)
          IN  /\ datos_prueba' = r.datos
              /\ mensaje_prueba' = r.mensaje
    /\ UNCHANGED <<resultados_text, grafico, alpha_leido, varsGen, varsGeneracion, varsMerge, varsMonteCarlo, knuth>>

RealizarPrueba ==
    /\ \E c \in Corridas :
          /\ datos_prueba # <<>> =>
                 Len(c.lib.expected) = num_intervalos(Len(datos_prueba))
          /\ LET r == realizar_prueba_local(datos_prueba, c.alpha, c.distribucion, c.lib,
                          resultados_text, grafico)
             IN  /\ resultados_text' = r.texto
                 /\ grafico' = r.grafico
                 /\ mensaje_prueba' = r.mensaje
                 /\ alpha_leido' = r.alpha_leido
    /\ UNCHANGED <<datos_prueba, varsGen, varsGeneracion, varsMerge, varsMonteCarlo, knuth>>

NextPrueba ==
    \/ CargarArchivo
    \/ ProcesarDatos
    \/ RealizarPrueba

SpecPrueba == InitVentanas /\ [][NextPrueba]_vars

\* ------------------------------------------------------------------------
\* SpecMerge: the merge loop of realizar_prueba_local, pass by pass
\* ------------------------------------------------------------------------
\* expected frequencies: zero, below 5, 5 and above 5
ValoresEsperados == {FxInt(0), FxInt(2), FxInt(5), FxInt(7)}

MinIntervalos == 5

MaxIntervalos == 15

\* a vector with the same value everywhere but at one position
CasiConstante(k, v, j, w) == [i \in 1..k |-> IF i = j THEN w ELSE v]

\* the vectors entering the loop: all of them up to MaxBins bins, and the
\* nearly constant ones and the all-nan one up to the 15 bins Sturges'
\* rule allows
VectoresEsperados ==
    UNION {[1..k -> ValoresEsperados] : k \in MinIntervalos..MaxBins}
    \cup {CasiConstante(k, v, j, w) :
             k \in MinIntervalos..MaxIntervalos, v \in ValoresEsperados,
             j \in 1..MaxIntervalos, w \in ValoresEsperados}
    \cup {SinEscala(k) : k \in MinIntervalos..MaxIntervalos}

\* the loop is entered with the histogram of a sample (counts 1, 2, 4, ...
\* over unit bins) and the expected frequencies e
InitMerge ==
    /\ \E e \in VectoresEsperados :
          /\ expected = e
          /\ observed = [i \in 1..Len(e) |-> 2^(i - 1)]
          /\ bins = [i \in 1..(Len(e) + 1) |-> i - 1]
    /\ fase = "bucle"

Combinar ==
    /\ fase = "bucle"
    /\ hay_que_combinar(expected)
    /\ LET m == combinar([observed |-> observed, expected |-> expected, bins |-> bins])
       IN  /\ observed' = m.observed
           /\ expected' = m.expected
           /\ bins' = m.bins
    /\ UNCHANGED <<fase, varsGen, varsGeneracion, varsPrueba, varsMonteCarlo, knuth>>

SalirDelBucle ==
    /\ fase = "bucle"
    /\ ~hay_que_combinar(expected)
    /\ fase' = "fin"
    /\ UNCHANGED <<observed, expected, bins, varsGen, varsGeneracion, varsPrueba, varsMonteCarlo, knuth>>

NextMerge ==
    \/ Combinar
    \/ SalirDelBucle

\* a run of realizar_prueba_local that has reached the merge loop
InitBucle == InitInstancias /\ InitGeneracion /\ InitPrueba /\ InitMerge /\ InitMonteCarlo /\ SinPoisson

SpecMerge == InitBucle /\ [][NextMerge]_vars

\* ------------------------------------------------------------------------
\* The pi, ruin and integral experiments of the Monte Carlo window; the
\* loops over the rounds of a player and over the points of the integral
\* are taken one pass at a time
\* ------------------------------------------------------------------------
PiEntradas == {"0", "-1", "2000001", "abc"} \cup {Digito[k] : k \in 1..MaxPuntos}

\* the entries of the ruin experiment with the value the environment gives
\* the generator: walks that end in ruin, a bet of 0 and a sure win (both
\* stopped by the cap on the rounds), a capital lost beyond 0, no capital,
\* no player, and entries int() or float() reject
RuinaBase ==
    [capital |-> "1", apuesta |-> "1", prob_ganar |-> "0.5", sims |-> "1",
     entropia |-> Limbs(0, 7)]

RuinaCorridas ==
    {[RuinaBase EXCEPT !.sims = Digito[k], !.entropia = e] : k \in 1..MaxJugadores, e \in Entropias}
    \cup {[RuinaBase EXCEPT !.capital = "2", !.sims = Digito[MaxJugadores]],
          [RuinaBase EXCEPT !.apuesta = "0"],
          [RuinaBase EXCEPT !.prob_ganar = "1"],
          [RuinaBase EXCEPT !.apuesta = "2", !.prob_ganar = "0"],
          [RuinaBase EXCEPT !.capital = "0"],
          [RuinaBase EXCEPT !.capital = "-1", !.prob_ganar = "nan"],
          [RuinaBase EXCEPT !.sims = "0"],
          [RuinaBase EXCEPT !.sims = "-1"],
          [RuinaBase EXCEPT !.capital = "abc"],
          [RuinaBase EXCEPT !.apuesta = "0.5"],
          [RuinaBase EXCEPT !.prob_ganar = "abc"],
          [RuinaBase EXCEPT !.sims = "abc"]}

\* 634785765 is the state that precedes state 0: the first draw is 0.0
EntropiasExperimentos == Entropias \cup {Limbs(9686, 4069)}

Funciones == {"x", "x**2", "1/x", "1/0"}

VentanaActual == Ventana(texto_simulacion, resultados_actuales, ejes, mensaje_simulacion)

Mostrar(v) ==
    /\ texto_simulacion' = v.texto
    /\ resultados_actuales' = v.actuales
    /\ ejes' = v.ejes
    /\ mensaje_simulacion' = v.mensaje

Empezar ==
    /\ simulacion.pc = "reposo"
    /\ simulaciones < MaxSimulaciones
    /\ simulaciones' = simulaciones + 1

SimularPi ==
    /\ Empezar
    /\ \E entrada \in PiEntradas, e \in EntropiasExperimentos :
          LET N_p == int_py(entrada)
              draws == IF N_p.ok /\ ~n_pi_fuera_de_rango(ValorInt(N_p.v))
                       THEN 2 * ValorInt(N_p.v) ELSE 0
          IN  \E libm \in SUBSET (1..draws) :
                 Mostrar(simular_pi(entrada, e, libm, VentanaActual))
    /\ UNCHANGED <<simulacion, varsGen, varsGeneracion, varsPrueba, varsMerge, knuth>>

\* simular_ruina() up to the loop over the players
SimularRuina ==
    /\ Empezar
    /\ \E c \in RuinaCorridas :
          LET m == ruina_inicio(c, c.entropia)
          IN  IF m.ok
              THEN /\ simulacion' = m.v
                   /\ Mostrar([VentanaActual EXCEPT !.mensaje = ""])
              ELSE /\ simulacion' = Reposo
                   /\ Mostrar([VentanaActual EXCEPT !.mensaje = MsjErrorSimulacion])
    /\ UNCHANGED <<varsGen, varsGeneracion, varsPrueba, varsMerge, knuth>>

\* for _ in range(sims): cap = capital; rondas = 0
RuinaJugador ==
    /\ simulacion.pc = "ruina_for"
    /\ Len(simulacion.capitales_finales) < simulacion.sims
    /\ simulacion' = [simulacion EXCEPT !.pc = "ruina_while", !.cap = simulacion.capital,
                                        !.rondas = 0]
    /\ UNCHANGED <<texto_simulacion, resultados_actuales, ejes, mensaje_simulacion, simulaciones,
                   varsGen, varsGeneracion, varsPrueba, varsMerge, knuth>>

\* one pass of the while loop
RuinaRonda ==
    /\ simulacion.pc = "ruina_while"
    /\ sigue_jugando(simulacion.cap, simulacion.rondas)
    /\ LET r == lcg(simulacion.gen)
       IN  simulacion' = [simulacion EXCEPT
                             !.gen = r.g,
                             !.cap = ronda(@, simulacion.apuesta, simulacion.prob_ganar, r.ret),
                             !.rondas = @ + 1]
    /\ UNCHANGED <<texto_simulacion, resultados_actuales, ejes, mensaje_simulacion, simulaciones,
                   varsGen, varsGeneracion, varsPrueba, varsMerge, knuth>>

\* the while loop is left: capitales_finales.append(cap); rondas_totales.append(rondas)
RuinaSalir ==
    /\ simulacion.pc = "ruina_while"
    /\ ~sigue_jugando(simulacion.cap, simulacion.rondas)
    /\ simulacion' = [simulacion EXCEPT
                          !.pc = "ruina_for",
                          !.capitales_finales = Append(@, simulacion.cap),
                          !.rondas_totales = Append(@, simulacion.rondas)]
    /\ UNCHANGED <<texto_simulacion, resultados_actuales, ejes, mensaje_simulacion, simulaciones,
                   varsGen, varsGeneracion, varsPrueba, varsMerge, knuth>>

\* the loop over the players is over: the plot and the results
RuinaFin ==
    /\ simulacion.pc = "ruina_for"
    /\ Len(simulacion.capitales_finales) >= simulacion.sims
    /\ Mostrar(ruina_fin(simulacion, VentanaActual))
    /\ simulacion' = Reposo
    /\ UNCHANGED <<simulaciones, varsGen, varsGeneracion, varsPrueba, varsMerge, knuth>>

\* simular_integral() up to the loop over the points
SimularIntegral ==
    /\ Empezar
    /\ \E entrada \in {"0", "-1", "abc"} \cup {Digito[k] : k \in 1..MaxPuntos},
          f \in Funciones, e \in EntropiasExperimentos :
          LET m == integral_inicio(entrada, f, e)
          IN  IF m.ok
              THEN /\ simulacion' = m.v
                   /\ Mostrar([VentanaActual EXCEPT !.mensaje = ""])
              ELSE /\ simulacion' = Reposo
                   /\ Mostrar([VentanaActual EXCEPT !.mensaje = MsjErrorSimulacion])
    /\ UNCHANGED <<varsGen, varsGeneracion, varsPrueba, varsMerge, knuth>>

\* one pass of for i in range(N)
IntegralPunto ==
    /\ simulacion.pc = "integral"
    /\ simulacion.i < simulacion.N
    /\ \E arriba \in BOOLEAN :
          LET rx == lcg(simulacion.gen)
              ry == lcg(rx.g)
          IN  simulacion' = [simulacion EXCEPT
                                !.gen = ry.g,
                                !.dentro = integral_punto(simulacion.funcion_str, rx.ret,
                                                          ry.ret, @, arriba),
                                !.i = @ + 1]
    /\ UNCHANGED <<texto_simulacion, resultados_actuales, ejes, mensaje_simulacion, simulaciones,
                   varsGen, varsGeneracion, varsPrueba, varsMerge, knuth>>

\* the loop over the points is over: the estimate, the plot and the results
IntegralFin ==
    /\ simulacion.pc = "integral"
    /\ simulacion.i >= simulacion.N
    /\ Mostrar(integral_fin(simulacion, VentanaActual))
    /\ simulacion' = Reposo
    /\ UNCHANGED <<simulaciones, varsGen, varsGeneracion, varsPrueba, varsMerge, knuth>>


\* ------------------------------------------------------------------------
\* SpecPoisson: one call of poisson() with its loops taken pass by pass;
\* the call runs on the calling thread, so a pass that can be made is made
\* ------------------------------------------------------------------------
Tasas == {Medio, FxInt(1), FxInt(2), Diminuto}

\* poisson(lambd, n) is entered on a generator just built
LlamarPoissonPorPasos ==
    /\ knuth.pc = "reposo"
    /\ \E s \in Semillas \cup {None}, e \in Entropias, lambd \in Tasas, n \in Cuentas :
          knuth' = [pc |-> "for", g |-> GeneradorAleatorios(s, e), lambd |-> lambd, n |-> n,
                    L |-> dbl_zero, k |-> 0, p |-> dbl_one, resultados |-> <<>>]
    /\ UNCHANGED <<varsGen, varsGeneracion, varsPrueba, varsMerge, varsMonteCarlo>>

\* for _ in range(n): L = np.exp(-lambd); k = 0; p = 1.0
PoissonMuestra ==
    /\ knuth.pc = "for"
    /\ Len(knuth.resultados) < knuth.n
    /\ knuth' = [knuth EXCEPT !.pc = "while", !.L = exp_neg(knuth.lambd), !.k = 0, !.p = dbl_one]
    /\ UNCHANGED <<varsGen, varsGeneracion, varsPrueba, varsMerge, varsMonteCarlo>>

\* while p > L: one pass
PoissonPaso ==
    /\ knuth.pc = "while"
    /\ dbl_greater(knuth.p, knuth.L)
    /\ knuth' = poisson_paso(knuth)
    /\ UNCHANGED <<varsGen, varsGeneracion, varsPrueba, varsMerge, varsMonteCarlo>>

\* the while loop is left: resultados.append(k - 1)
PoissonAgregar ==
    /\ knuth.pc = "while"
    /\ ~dbl_greater(knuth.p, knuth.L)
    /\ knuth' = [knuth EXCEPT !.pc = "for", !.resultados = Append(@, knuth.k - 1)]
    /\ UNCHANGED <<varsGen, varsGeneracion, varsPrueba, varsMerge, varsMonteCarlo>>

\* return resultados
PoissonRetorno ==
    /\ knuth.pc = "for"
    /\ Len(knuth.resultados) >= knuth.n
    /\ knuth' = [knuth EXCEPT !.pc = "fin"]
    /\ UNCHANGED <<varsGen, varsGeneracion, varsPrueba, varsMerge, varsMonteCarlo>>

NextPoisson ==
    \/ LlamarPoissonPorPasos
    \/ PoissonMuestra
    \/ PoissonPaso
    \/ PoissonAgregar
    \/ PoissonRetorno

InitPoisson ==
    InitInstancias /\ InitGeneracion /\ InitPrueba /\ MergeReposo /\ InitMonteCarlo /\ SinPoisson

SpecPoisson == InitPoisson /\ [][NextPoisson]_vars /\ WF_vars(NextPoisson)

\* ------------------------------------------------------------------------
\* simular_colas, customer by customer.  The times are nan, infinite, or
\* finite floats with at most 32 fractional bits, on which + and - are exact
\* ------------------------------------------------------------------------
\* max(a, b) of Python: b when b > a, else a
FxMax(a, b) == IF FxLess(a, b) THEN b ELSE a

\* 60 / clientes_hora, exact on the divisors of 60
tiempo_llegada(clientes_hora) == FxInt(60 \div clientes_hora)

\* inicio_espera = max(tiempo_actual, cola[-1] if cola else 0)
inicio_espera(tiempo_actual, cola) ==
    FxMax(tiempo_actual, IF cola # <<>> THEN cola[Len(cola)] ELSE FxInt(0))

\* one pass of for i in range(clientes_hora) on the locals m
colas_cliente(m) ==
    LET r == lcg(m.gen)
        tiempo_actual == FxSuma(m.tiempo_actual,
                                FxSuma(tiempo_llegada(m.clientes_hora), FxSuma(r.ret, r.ret)))
        inicio == inicio_espera(tiempo_actual, m.cola)
        tiempo_espera == FxMax(FxInt(0), FxResta(inicio, tiempo_actual))
    IN  [m EXCEPT !.gen = r.g,
                  !.i = @ + 1,
                  !.tiempo_actual = tiempo_actual,
                  !.tiempos_espera_sim = Append(@, tiempo_espera),
                  !.cola = Append(@, FxSuma(inicio, m.tiempo_servicio))]

\* simular_colas() up to the loop over the replications
colas_inicio(c, entropia) ==
    LET clientes_hora == int_py(c.clientes_hora)
        tiempo_servicio == float_py(c.tiempo_servicio)
        sims == int_py(c.sims)
    IN  IF ~clientes_hora.ok \/ ~tiempo_servicio.ok \/ ~sims.ok THEN [ok |-> FALSE]
        ELSE [ok |-> TRUE,
              v |-> [pc |-> "colas_for", gen |-> GeneradorAleatorios(None, entropia),
                     clientes_hora |-> ValorInt(clientes_hora.v),
                     tiempo_servicio |-> tiempo_servicio.v, sims |-> ValorInt(sims.v),
                     tiempos_espera |-> <<>>, largos_cola |-> <<>>,
                     i |-> 0, tiempo_actual |-> FxInt(0), cola |-> <<>>,
                     tiempos_espera_sim |-> <<>>]]

\* the text simular_colas() writes: the entries and the samples the
\* statistics shown are taken of
InformeColas(m) ==
    [titulo |-> "Sistema de Colas", clientes_hora |-> m.clientes_hora,
     tiempo_servicio |-> m.tiempo_servicio, sims |-> m.sims,
     tiempos_espera |-> m.tiempos_espera, largos_cola |-> m.largos_cola, gen |-> m.gen]

\* simular_colas() after the loop over the replications: ax.hist raises
\* on an infinite waiting time after the axes were cleared and before the
\* text is touched; with no waiting time np.max raises after the axes were
\* redrawn and the text deleted
colas_fin(m, v) ==
    IF hist_sin_rango(m.tiempos_espera)
    THEN [v EXCEPT !.ejes = "colas", !.mensaje = MsjErrorSimulacion]
    ELSE IF m.tiempos_espera = <<>>
    THEN [v EXCEPT !.ejes = "colas", !.texto = SinResultados, !.mensaje = MsjErrorSimulacion]
    ELSE Ventana(InformeColas(m), InformeColas(m), "colas", "")

\* the entries explored: every rate up to MaxClientes with a service longer
\* and shorter than the time between arrivals, an infinite one and a nan, in
\* one and two replications;
\* no customer, no replication, a rate of 0 and entries int() or float() reject
ColasBase == [clientes_hora |-> "2", tiempo_servicio |-> "40", sims |-> "1"]

ColasCorridas ==
    {[clientes_hora |-> Digito[k], tiempo_servicio |-> t, sims |-> n] :
        k \in 1..MaxClientes, t \in {"0", "0.5", "40", "-1", "inf", "nan"}, n \in {"1", "2"}}
    \cup {[ColasBase EXCEPT !.clientes_hora = "0"],
          [ColasBase EXCEPT !.clientes_hora = "-1"],
          [ColasBase EXCEPT !.sims = "0"],
          [ColasBase EXCEPT !.clientes_hora = "abc"],
          [ColasBase EXCEPT !.tiempo_servicio = "abc"],
          [ColasBase EXCEPT !.sims = "abc"]}

SimularColas ==
    /\ Empezar
    /\ \E c \in ColasCorridas, e \in EntropiasExperimentos :
          LET m == colas_inicio(c, e)
          IN  IF m.ok
              THEN /\ simulacion' = m.v
                   /\ Mostrar([VentanaActual EXCEPT !.mensaje = ""])
              ELSE /\ simulacion' = Reposo
                   /\ Mostrar([VentanaActual EXCEPT !.mensaje = MsjErrorSimulacion])
    /\ UNCHANGED <<varsGen, varsGeneracion, varsPrueba, varsMerge, knuth>>

\* for _ in range(sims): tiempo_llegada = 60 / clientes_hora raises on a
\* rate of 0; cola = []; tiempo_actual = 0; tiempos_espera_sim = []
ColasReplica ==
    /\ simulacion.pc = "colas_for"
    /\ Len(simulacion.largos_cola) < simulacion.sims
    /\ IF simulacion.clientes_hora = 0
       THEN /\ simulacion' = Reposo
            /\ Mostrar([VentanaActual EXCEPT !.mensaje = MsjErrorSimulacion])
       ELSE /\ simulacion' = [simulacion EXCEPT !.pc = "colas_clientes", !.i = 0,
                                                !.tiempo_actual = FxInt(0), !.cola = <<>>,
                                                !.tiempos_espera_sim = <<>>]
            /\ UNCHANGED <<texto_simulacion, resultados_actuales, ejes, mensaje_simulacion>>
    /\ UNCHANGED <<simulaciones, varsGen, varsGeneracion, varsPrueba, varsMerge, knuth>>

\* one pass of for i in range(clientes_hora)
ColasCliente ==
    /\ simulacion.pc = "colas_clientes"
    /\ simulacion.i < simulacion.clientes_hora
    /\ simulacion' = colas_cliente(simulacion)
    /\ UNCHANGED <<texto_simulacion, resultados_actuales, ejes, mensaje_simulacion, simulaciones,
                   varsGen, varsGeneracion, varsPrueba, varsMerge, knuth>>

\* the customers of the replication are served:
\* tiempos_espera.extend(tiempos_espera_sim); largos_cola.append(len(cola))
ColasFinReplica ==
    /\ simulacion.pc = "colas_clientes"
    /\ simulacion.i >= simulacion.clientes_hora
    /\ simulacion' = [simulacion EXCEPT
                          !.pc = "colas_for",
                          !.tiempos_espera = @ \o simulacion.tiempos_espera_sim,
                          !.largos_cola = Append(@, Len(simulacion.cola))]
    /\ UNCHANGED <<texto_simulacion, resultados_actuales, ejes, mensaje_simulacion, simulaciones,
                   varsGen, varsGeneracion, varsPrueba, varsMerge, knuth>>

\* the loop over the replications is over: the histogram and the results
ColasFin ==
    /\ simulacion.pc = "colas_for"
    /\ Len(simulacion.largos_cola) >= simulacion.sims
    /\ Mostrar(colas_fin(simulacion, VentanaActual))
    /\ simulacion' = Reposo
    /\ UNCHANGED <<simulaciones, varsGen, varsGeneracion, varsPrueba, varsMerge, knuth>>

\* ------------------------------------------------------------------------
\* simular_inventarios, draw by draw.  The costs are finite
\* floats with at most 32 fractional bits, on which the products by an
\* integer and the sums are exact
\* ------------------------------------------------------------------------
\* n * x for an integer n and a finite float x
FxPorEntero(n, x) ==
    LET low == n * x.lo
        mid == n * x.hi + (low \div W16)
    IN  Fx(n * x.i + (mid \div W16), mid % W16, low % W16)

RECURSIVE FxSumSeq(_)
FxSumSeq(q) == IF q = <<>> THEN FxInt(0) ELSE FxSuma(Head(q), FxSumSeq(Tail(q)))

\* int(u * 40 - 20) for a draw u: the fraction is dropped towards zero
desviacion(u) ==
    LET low == 40 * u.lo
        mid == 40 * u.hi + (low \div W16)
        v == (mid \div W16) - 20
        fraccion == mid % W16 # 0 \/ low % W16 # 0
    IN  IF v < 0 /\ fraccion THEN v + 1 ELSE v

\* the cost of ordering q under the demand demanda_sim
costo(q, demanda_sim, costo_unit, costo_ord) ==
    IF q >= demanda_sim
    THEN FxSuma(FxPorEntero(q \div 2, costo_unit), costo_ord)
    ELSE FxSuma(FxSuma(FxPorEntero(q \div 2, costo_unit),
                       FxPorEntero(2 * (demanda_sim - q), costo_unit)),
                costo_ord)

\* np.mean(costos_sim): the sum over the count, nan on an empty list
media(costos_sim) ==
    IF costos_sim = <<>> THEN NaN ELSE Cociente(FxSumSeq(costos_sim), Len(costos_sim))

\* a < b on means over the same count
costo_menor(a, b) == a # NaN /\ b # NaN /\ FxLess(a.num, b.num)

\* the last position of the least mean
argmin_costos_ultimo(costos) ==
    CHOOSE i \in 1..Len(costos) :
        /\ \A j \in 1..Len(costos) : ~costo_menor(costos[j], costos[i])
        /\ \A j \in (i + 1)..Len(costos) : costo_menor(costos[i], costos[j])

\* np.argmin(costos_totales), counted from 1: the first nan if there is one,
\* else the first position of the least mean
argmin_costos(costos) ==
    IF \E j \in 1..Len(costos) : costos[j] = NaN
    THEN CHOOSE i \in 1..Len(costos) :
             costos[i] = NaN /\ \A j \in 1..(i - 1) : costos[j] # NaN
    ELSE CHOOSE i \in 1..Len(costos) :
             /\ \A j \in 1..Len(costos) : ~costo_menor(costos[j], costos[i])
             /\ \A j \in 1..(i - 1) : costo_menor(costos[i], costos[j])

\* min(costos_totales) of Python: the first element is kept until a smaller
\* one is met
RECURSIVE min_py(_, _)
min_py(costos, m) ==
    IF costos = <<>> THEN m
    ELSE min_py(Tail(costos), IF costo_menor(Head(costos), m) THEN Head(costos) ELSE m)

\* range(10, 200, 10)
CantidadesEvaluadas == [j \in 1..19 |-> 10 * j]

\* one pass of for _ in range(sims) on the locals m
inventario_demanda(m) ==
    LET r == lcg(m.gen)
        demanda_sim == m.demanda + desviacion(r.ret)
    IN  [m EXCEPT !.gen = r.g,
                  !.costos_sim = Append(@, costo(m.q, demanda_sim, m.costo_unit, m.costo_ord))]

\* simular_inventarios() up to the loop over the quantities
inventarios_inicio(c, entropia) ==
    LET demanda == int_py(c.demanda)
        costo_unit == float_py(c.costo_unit)
        costo_ord == float_py(c.costo_ord)
        sims == int_py(c.sims)
    IN  IF ~demanda.ok \/ ~costo_unit.ok \/ ~costo_ord.ok \/ ~sims.ok THEN [ok |-> FALSE]
        ELSE [ok |-> TRUE,
              v |-> [pc |-> "inventarios_for", gen |-> GeneradorAleatorios(None, entropia),
                     demanda |-> ValorInt(demanda.v), costo_unit |-> costo_unit.v,
                     costo_ord |-> costo_ord.v, sims |-> ValorInt(sims.v),
                     costos_totales |-> <<>>, cantidades_opt |-> <<>>,
                     q |-> 0, costos_sim |-> <<>>]]

\* the text simular_inventarios() writes
InformeInventarios(m) ==
    [titulo |-> "Problema de Inventarios", demanda |-> m.demanda,
     costo_unit |-> m.costo_unit, costo_ord |-> m.costo_ord, sims |-> m.sims,
     q_optimo |-> m.cantidades_opt[argmin_costos(m.costos_totales)],
     costo_minimo |-> min_py(Tail(m.costos_totales), Head(m.costos_totales)),
     rango |-> <<m.cantidades_opt[1], m.cantidades_opt[Len(m.cantidades_opt)]>>,
     gen |-> m.gen]

\* simular_inventarios() after the loop over the quantities
inventarios_fin(m) == Ventana(InformeInventarios(m), InformeInventarios(m), "inventarios", "")

\* the entries explored: demands below and above the least quantity, unit
\* costs that make every quantity cost the same and that do not, up to
\* MaxDemandas draws per quantity and none, and entries int() or float() reject
InventariosBase == [demanda |-> "4", costo_unit |-> "1", costo_ord |-> "1", sims |-> "1"]

InventariosCorridas ==
    {[demanda |-> dem, costo_unit |-> cu, costo_ord |-> "1", sims |-> Digito[n]] :
        dem \in {"4", "50"}, cu \in {"0", "0.5", "1"}, n \in 1..MaxDemandas}
    \cup {[InventariosBase EXCEPT !.sims = "0"],
          [InventariosBase EXCEPT !.sims = "-1"],
          [InventariosBase EXCEPT !.costo_unit = "-1"],
          [InventariosBase EXCEPT !.demanda = "abc"],
          [InventariosBase EXCEPT !.costo_unit = "abc"],
          [InventariosBase EXCEPT !.costo_ord = "abc"],
          [InventariosBase EXCEPT !.sims = "abc"]}

SimularInventarios ==
    /\ Empezar
    /\ \E c \in InventariosCorridas, e \in EntropiasExperimentos :
          LET m == inventarios_inicio(c, e)
          IN  IF m.ok
              THEN /\ simulacion' = m.v
                   /\ Mostrar([VentanaActual EXCEPT !.mensaje = ""])
              ELSE /\ simulacion' = Reposo
                   /\ Mostrar([VentanaActual EXCEPT !.mensaje = MsjErrorSimulacion])
    /\ UNCHANGED <<varsGen, varsGeneracion, varsPrueba, varsMerge, knuth>>

\* for q in range(10, 200, 10): costos_sim = []
InventarioCantidad ==
    /\ simulacion.pc = "inventarios_for"
    /\ Len(simulacion.cantidades_opt) < Len(CantidadesEvaluadas)
    /\ simulacion' = [simulacion EXCEPT
                          !.pc = "inventarios_sims",
                          !.q = CantidadesEvaluadas[Len(simulacion.cantidades_opt) + 1],
                          !.costos_sim = <<>>]
    /\ UNCHANGED <<texto_simulacion, resultados_actuales, ejes, mensaje_simulacion, simulaciones,
                   varsGen, varsGeneracion, varsPrueba, varsMerge, knuth>>

\* one pass of for _ in range(sims)
InventarioDemanda ==
    /\ simulacion.pc = "inventarios_sims"
    /\ Len(simulacion.costos_sim) < simulacion.sims
    /\ simulacion' = inventario_demanda(simulacion)
    /\ UNCHANGED <<texto_simulacion, resultados_actuales, ejes, mensaje_simulacion, simulaciones,
                   varsGen, varsGeneracion, varsPrueba, varsMerge, knuth>>

\* the draws of q are made:
\* costos_totales.append(np.mean(costos_sim)); cantidades_opt.append(q)
InventarioPromedio ==
    /\ simulacion.pc = "inventarios_sims"
    /\ Len(simulacion.costos_sim) >= simulacion.sims
    /\ simulacion' = [simulacion EXCEPT
                          !.pc = "inventarios_for",
                          !.costos_totales = Append(@, media(simulacion.costos_sim)),
                          !.cantidades_opt = Append(@, simulacion.q)]
    /\ UNCHANGED <<texto_simulacion, resultados_actuales, ejes, mensaje_simulacion, simulaciones,
                   varsGen, varsGeneracion, varsPrueba, varsMerge, knuth>>

\* the loop over the quantities is over: q_optimo, the plot and the results
InventarioFin ==
    /\ simulacion.pc = "inventarios_for"
    /\ Len(simulacion.cantidades_opt) >= Len(CantidadesEvaluadas)
    /\ Mostrar(inventarios_fin(simulacion))
    /\ simulacion' = Reposo
    /\ UNCHANGED <<simulaciones, varsGen, varsGeneracion, varsPrueba, varsMerge, knuth>>

\* ------------------------------------------------------------------------
\* simular_hipotesis, replication by replication
\* ------------------------------------------------------------------------
\* x = mu_0 + sigma * z for finite mu_0 and sigma, z being
\* sqrt(-2 ln u1) * cos(2 pi u2): z is +inf or -inf on u1 = 0, which sigma = 0
\* turns into nan and a negative sigma into the opposite infinity; sigma = 0
\* leaves mu_0 on the other draws
hipotesis_valor(mu_0, sigma, u1, u2) ==
    IF sigma = FxInt(0)
    THEN IF u1 = Fx(0, 0, 0) THEN NaN ELSE mu_0
    ELSE IF u1 = Fx(0, 0, 0) /\ FxLess(sigma, FxInt(0))
         THEN IF normal_valor(mu_0, sigma, u1, u2) = PosInf THEN NegInf ELSE PosInf
         ELSE normal_valor(mu_0, sigma, u1, u2)

\* for _ in range(n): two draws and one value of the sample
RECURSIVE hipotesis_muestra(_, _, _, _, _)
hipotesis_muestra(g, mu_0, sigma, n, muestra) ==
    IF n <= 0 THEN [g |-> g, ret |-> muestra]
    ELSE LET r1 == lcg(g)
             r2 == lcg(r1.g)
         IN  hipotesis_muestra(r2.g, mu_0, sigma, n - 1,
                               Append(muestra, hipotesis_valor(mu_0, sigma, r1.ret, r2.ret)))

\* np.mean(muestra): nan on an empty sample, on a nan and on infinities of
\* both signs, the infinity when there is one, else the mean of the values
media_muestra(muestra) ==
    LET ks == {muestra[j].k : j \in 1..Len(muestra)}
    IN  IF muestra = <<>> \/ "nan" \in ks \/ {"inf", "ninf"} \subseteq ks THEN NaN
        ELSE IF "inf" \in ks THEN PosInf
        ELSE IF "ninf" \in ks THEN NegInf
        ELSE [k |-> "media", muestra |-> muestra]

\* p_value < alpha, with p_value = 2 * (1 - stats.norm.cdf(abs(z_stat))) and
\* z_stat = (media - mu_0) / (sigma / sqrt(n)).  A nan mean gives a nan
\* p_value; sigma = 0 gives the mean mu_0 and z_stat = 0 / 0; an infinite mean
\* gives p_value = 0.  Otherwise p_value is what scipy answers, a number of
\* [0, 1]: below every alpha > 1, below no alpha <= 0, and for the alphas in
\* between cdf_menor tells whether it is below
p_value_menor(m, med, cdf_menor) ==
    IF med = NaN \/ m.sigma = FxInt(0) THEN FALSE
    ELSE IF med \in {PosInf, NegInf} THEN FxLess(FxInt(0), m.alpha)
    ELSE IF ~FxLess(FxInt(0), m.alpha) THEN FALSE
    ELSE IF FxLess(FxInt(1), m.alpha) THEN TRUE
    ELSE cdf_menor

\* one pass of for _ in range(sims) on the locals m
hipotesis_replica(m, cdf_menor) ==
    LET r == hipotesis_muestra(m.gen, m.mu_0, m.sigma, m.n, <<>>)
        med == media_muestra(r.ret)
    IN  [m EXCEPT !.gen = r.g,
                  !.medias_muestra = Append(@, med),
                  !.rechazos = @ + (IF p_value_menor(m, med, cdf_menor) THEN 1 ELSE 0)]

\* simular_hipotesis() up to the loop over the replications
hipotesis_inicio(c, entropia) ==
    LET mu_0 == float_py(c.mu_0)
        sigma == float_py(c.sigma)
        n == int_py(c.n)
        sims == int_py(c.sims)
        alpha == float_py(c.alpha)
    IN  IF ~mu_0.ok \/ ~sigma.ok \/ ~n.ok \/ ~sims.ok \/ ~alpha.ok THEN [ok |-> FALSE]
        ELSE [ok |-> TRUE,
              v |-> [pc |-> "hipotesis_for", gen |-> GeneradorAleatorios(None, entropia),
                     mu_0 |-> mu_0.v, sigma |-> sigma.v, n |-> ValorInt(n.v),
                     sims |-> ValorInt(sims.v), alpha |-> alpha.v,
                     medias_muestra |-> <<>>, rechazos |-> 0]]

\* the text simular_hipotesis() writes: the entries, the rejections, the
\* power and the means the statistics shown are taken of
InformeHipotesis(m) ==
    [titulo |-> "Prueba de Hipotesis", mu_0 |-> m.mu_0, alpha |-> m.alpha,
     sigma |-> m.sigma, n |-> m.n, sims |-> m.sims,
     medias_muestra |-> m.medias_muestra, rechazos |-> m.rechazos,
     potencia |-> Cociente(m.rechazos, m.sims), gen |-> m.gen]

\* simular_hipotesis() after the loop over the replications: the axes are
\* cleared, then ax.hist raises on an infinite mean and on means that are
\* all nan, and min() on no mean at all, before the results text is
\* touched; a nan next to a finite mean goes into the results
hipotesis_fin(m, v) ==
    IF m.medias_muestra = <<>> \/ hist_sin_rango(m.medias_muestra)
    THEN [v EXCEPT !.ejes = "hipotesis", !.mensaje = MsjErrorSimulacion]
    ELSE Ventana(InformeHipotesis(m), InformeHipotesis(m), "hipotesis", "")

\* the entries explored: samples of one and two values in one and two
\* replications, levels no p_value is below, some are and all are, a zero
\* deviation in one and two replications (a nan mean alone and next to a
\* finite one), a negative deviation, no value, no replication, and entries
\* int() or float() reject
HipotesisBase == [mu_0 |-> "0", sigma |-> "1", n |-> "1", sims |-> "1", alpha |-> "0.25"]

HipotesisCorridas ==
    {[HipotesisBase EXCEPT !.n = a, !.sims = b] : a \in {"1", "2"}, b \in {"1", "2"}}
    \cup {[HipotesisBase EXCEPT !.alpha = a] : a \in {"0", "2", "nan", "abc"}}
    \cup {[HipotesisBase EXCEPT !.sigma = a] : a \in {"0", "-1", "abc"}}
    \cup {[HipotesisBase EXCEPT !.sigma = "0", !.sims = "2"]}
    \cup {[HipotesisBase EXCEPT !.n = a] : a \in {"0", "-1", "abc"}}
    \cup {[HipotesisBase EXCEPT !.sims = a] : a \in {"0", "-1", "abc"}}
    \cup {[HipotesisBase EXCEPT !.mu_0 = a] : a \in {"1", "abc"}}

SimularHipotesis ==
    /\ Empezar
    /\ \E c \in HipotesisCorridas, e \in EntropiasExperimentos :
          LET m == hipotesis_inicio(c, e)
          IN  IF m.ok
              THEN /\ simulacion' = m.v
                   /\ Mostrar([VentanaActual EXCEPT !.mensaje = ""])
              ELSE /\ simulacion' = Reposo
                   /\ Mostrar([VentanaActual EXCEPT !.mensaje = MsjErrorSimulacion])
    /\ UNCHANGED <<varsGen, varsGeneracion, varsPrueba, varsMerge, knuth>>

\* one pass of for _ in range(sims): the sample, its mean and the test
HipotesisReplica ==
    /\ simulacion.pc = "hipotesis_for"
    /\ Len(simulacion.medias_muestra) < simulacion.sims
    /\ \E cdf_menor \in BOOLEAN : simulacion' = hipotesis_replica(simulacion, cdf_menor)
    /\ UNCHANGED <<texto_simulacion, resultados_actuales, ejes, mensaje_simulacion, simulaciones,
                   varsGen, varsGeneracion, varsPrueba, varsMerge, knuth>>

\* the loop over the replications is over: the histogram and the results
HipotesisFin ==
    /\ simulacion.pc = "hipotesis_for"
    /\ Len(simulacion.medias_muestra) >= simulacion.sims
    /\ Mostrar(hipotesis_fin(simulacion, VentanaActual))
    /\ simulacion' = Reposo
    /\ UNCHANGED <<simulaciones, varsGen, varsGeneracion, varsPrueba, varsMerge, knuth>>

\* ------------------------------------------------------------------------
\* SpecMonteCarlo: the experiments of the window, in any order
\* ------------------------------------------------------------------------
\* ejecutar_simulacion(): the experiment problema_var selects is run in the
\* window, on the same results text, results and axes, step by step
NextMonteCarlo ==
    \/ SimularPi
    \/ SimularRuina
    \/ RuinaJugador
    \/ RuinaRonda
    \/ RuinaSalir
    \/ RuinaFin
    \/ SimularIntegral
    \/ IntegralPunto
    \/ IntegralFin
    \/ SimularColas
    \/ ColasReplica
    \/ ColasCliente
    \/ ColasFinReplica
    \/ ColasFin
    \/ SimularInventarios
    \/ InventarioCantidad
    \/ InventarioDemanda
    \/ InventarioPromedio
    \/ InventarioFin
    \/ SimularHipotesis
    \/ HipotesisReplica
    \/ HipotesisFin

\* simular_integral() with 1000001 points and the function 1/0, which raises
\* at every point, after 1000000 passes of its loop: the generator was built
\* on the value 7 and has been stepped 2000000 times
IntegralEnCurso ==
    /\ simulacion = [pc |-> "integral", N |-> 1000001, funcion_str |-> "1/0",
                     gen |-> [semilla |-> Limbs(0, 7), actual |-> Limbs(61862, 33927),
                              draws |-> 2000000],
                     i |-> 1000000, dentro |-> 0]
    /\ texto_simulacion = VentanaInicial.texto
    /\ resultados_actuales = VentanaInicial.actuales
    /\ ejes = VentanaInicial.ejes
    /\ mensaje_simulacion = VentanaInicial.mensaje
    /\ simulaciones = 1

\* the Monte Carlo window just opened, or inside a long run of the integral
InitExperimentos ==
    /\ InitInstancias /\ InitGeneracion /\ InitPrueba /\ MergeReposo /\ SinPoisson
    /\ (InitMonteCarlo \/ IntegralEnCurso)

SpecMonteCarlo == InitExperimentos /\ [][NextMonteCarlo]_vars

\* ------------------------------------------------------------------------
\* SpecSesion: runs of generar_datos and of the pi experiment in any order
\* ------------------------------------------------------------------------
\* the entries of generar_datos explored in a session: a count and a seed
\* that are rejected, and four distributions, one of them with parameters
\* that are rejected, under a seed typed by the user and under Auto
EntradasSesion ==
    {[EntradaBase EXCEPT !.n = "0"],
     [EntradaBase EXCEPT !.auto = FALSE, !.semilla = "abc"]}
    \cup {[n |-> Digito[k], auto |-> sem.auto, semilla |-> sem.texto,
           dist |-> dp[1], param1 |-> dp[2], param2 |-> dp[3]] :
             k \in 1..MaxN, sem \in SemillasValidas,
             dp \in {<<"Bernoulli", "0.5", "">>, <<"Poisson", "1", "">>,
                     <<"Uniforme", "2", "1">>, <<"Normal", "0", "1">>}}

GenerarEnSesion ==
    /\ generaciones < MaxGeneraciones
    /\ \E w \in EntradasSesion, e \in Entropias : Corrida(w, e)

NextSesion ==
    \/ GenerarEnSesion
    \/ SimularPi

SpecSesion == InitVentanas /\ [][NextSesion]_vars

\* ------------------------------------------------------------------------
\* Properties of the generator (SpecGen)
\* ------------------------------------------------------------------------

\* the recurrence current = (1664525 * current + 1013904223) mod 2^32 of the
\* specification, computed byte by byte of the state
RecurrenciaRef(x) ==
    LET h == x.hi % W16
        p0 == 1664525 * (x.lo % 256)
        p1 == 1664525 * (x.lo \div 256)
        p2 == 1664525 * (h % 256)
        p3 == 1664525 * (h \div 256)
        low == (p0 % W16) + (p1 % 256) * 256 + (1013904223 % W16)
        high == (p0 \div W16) + (p1 \div 256) + (p2 % W16) + (p3 % 256) * 256
                + (1013904223 \div W16) + (low \div W16)
    IN  Limbs(high % W16, low % W16)

RECURSIVE RecurrenciaIter(_, _)
RecurrenciaIter(x, k) == IF k = 0 THEN x ELSE RecurrenciaIter(RecurrenciaRef(x), k - 1)

\* the j-th return value of lcg() after the state x
DrawRef(x, j) == LET y == RecurrenciaIter(x, j) IN Fx(0, y.hi, y.lo)

EnUnidad(v) == v.k = "fx" /\ v.i = 0 /\ v.hi \in 0..(W16 - 1) /\ v.lo \in 0..(W16 - 1)

MismaLlamada(c, d) ==
    /\ c.metodo = d.metodo /\ c.params = d.params /\ c.n = d.n
    /\ c.antes.draws = d.antes.draws

\* C1: two instances built with the same seed and asked for the same
\* distribution, parameters and n (from the same position of the stream)
\* return identical sequences and end in the same state actual.
C1_Determinismo ==
    \A i \in Inst, j \in Inst :
        (gen[i] # None /\ gen[j] # None /\ semilla_arg[i] # None
         /\ semilla_arg[i] = semilla_arg[j])
        => /\ gen[i].semilla = gen[j].semilla
           /\ (ultima[i] = None /\ ultima[j] = None) => gen[i].actual = gen[j].actual
           /\ (ultima[i] # None /\ ultima[j] # None /\ MismaLlamada(ultima[i], ultima[j]))
              => /\ ultima[i].ret = ultima[j].ret
                 /\ gen[i].actual = gen[j].actual

C1_Witness ==
    /\ gen[1] # None /\ gen[2] # None
    /\ semilla_arg[1] = Limbs(0, 0) /\ semilla_arg[2] = Limbs(0, 0)
    /\ ultima[1] # None /\ ultima[2] # None
    /\ ultima[1].metodo = "poisson" /\ ultima[1].n = MaxN
    /\ MismaLlamada(ultima[1], ultima[2])

\* C2: after each call of lcg() the state actual is in [0, 2^32) and the
\* returned value actual / 2^32 is in [0, 1), for every seed (negative and
\* >= 2^32 included); every value of uniforme(0, 1, n) is in [0, 1).
C2_Rango ==
    \A i \in Inst :
        gen[i] # None =>
           /\ gen[i].draws >= 1
              => gen[i].actual.hi \in 0..(W16 - 1) /\ gen[i].actual.lo \in 0..(W16 - 1)
           /\ (ultima[i] # None /\ ultima[i].metodo = "lcg")
              => /\ EnUnidad(ultima[i].ret[1])
                 /\ ultima[i].ret[1] = Fx(0, gen[i].actual.hi, gen[i].actual.lo)
           /\ (ultima[i] # None /\ ultima[i].metodo = "uniforme"
               /\ ultima[i].params = <<FxInt(0), FxInt(1)>>)
              => \A j \in 1..Len(ultima[i].ret) : EnUnidad(ultima[i].ret[j])

C2_Witness ==
    \E i \in Inst :
        /\ gen[i] # None /\ gen[i].semilla.hi < 0
        /\ ultima[i] # None /\ ultima[i].metodo = "uniforme"
        /\ ultima[i].params = <<FxInt(0), FxInt(1)>> /\ ultima[i].n = MaxN
        /\ \E j \in Inst : gen[j] # None /\ gen[j].semilla.hi >= W16
                           /\ ultima[j] # None /\ ultima[j].metodo = "lcg"

\* C3: actual is always the k-fold application of
\* x -> (1664525 x + 1013904223) mod 2^32 to the seed, k the number of calls
\* of lcg(); a sampling method changes actual only through lcg().
C3_Recurrencia ==
    \A i \in Inst :
        gen[i] # None =>
           /\ gen[i].actual = RecurrenciaIter(gen[i].semilla, gen[i].draws)
           /\ ultima[i] # None
              => /\ gen[i].semilla = ultima[i].antes.semilla
                 /\ gen[i].draws >= ultima[i].antes.draws

C3_Witness ==
    \E i \in Inst :
        /\ gen[i] # None /\ gen[i].draws = MaxDraws
        /\ ultima[i] # None /\ ultima[i].metodo = "normal"

\* the draws a call of n values takes, where the method fixes it
DrawsEsperados(c) ==
    CASE c.metodo \in {"lcg", "uniforme", "exponencial", "bernoulli"} -> c.n
      [] c.metodo = "normal" -> 2 * c.n
      [] c.metodo = "binomial" -> c.n * c.params[1]

RECURSIVE BinomialRef(_, _, _, _)
BinomialRef(x, p, desde, cuantos) ==
    IF cuantos = 0 THEN 0
    ELSE bernoulli_valor(p, DrawRef(x, desde)) + BinomialRef(x, p, desde + 1, cuantos - 1)

\* the j-th value of the call c, from the draws the method gives it
ValorEsperado(c, j) ==
    LET x == c.antes.actual
    IN  CASE c.metodo = "uniforme" -> uniforme_valor(c.params[1], c.params[2], DrawRef(x, j))
          [] c.metodo = "exponencial" -> exponencial_valor(c.params[1], DrawRef(x, j))
          [] c.metodo = "bernoulli" -> bernoulli_valor(c.params[1], DrawRef(x, j))
          [] c.metodo = "normal" ->
                normal_valor(c.params[1], c.params[2], DrawRef(x, 2 * j - 1), DrawRef(x, 2 * j))
          [] c.metodo = "binomial" ->
                BinomialRef(x, c.params[2], (j - 1) * c.params[1] + 1, c.params[1])

\* C4: every sampling method called with count n returns exactly n values in
\* generation order and advances the generator by n draws (uniforme,
\* exponencial, bernoulli), 2n draws (normal) or n * n_trials draws (binomial).
C4_Longitud ==
    \A i \in Inst :
        (ultima[i] # None /\ ultima[i].metodo # "lcg") =>
           /\ Len(ultima[i].ret) = ultima[i].n
           /\ ultima[i].metodo # "poisson"
              => /\ gen[i].draws - ultima[i].antes.draws = DrawsEsperados(ultima[i])
                 /\ \A j \in 1..Len(ultima[i].ret) :
                        ultima[i].ret[j] = ValorEsperado(ultima[i], j)

C4_Witness ==
    /\ ultima[1] # None /\ ultima[1].metodo = "binomial" /\ ultima[1].n = MaxN
    /\ ultima[2] # None /\ ultima[2].metodo = "uniforme" /\ ultima[2].n = MaxN
    /\ ultima[2].ret[1] # ultima[2].ret[2]

\* C10: no value returned by exponencial or normal is non-finite, for any
\* seed and any n (a zero draw feeding the logarithm is handled).
C10_Finitos ==
    \A i \in Inst :
        (ultima[i] # None /\ ultima[i].metodo \in {"exponencial", "normal"})
        => \A j \in 1..Len(ultima[i].ret) : IsFinite(ultima[i].ret[j])

\* ------------------------------------------------------------------------
\* Properties of the generation window (SpecGeneracion)
\* ------------------------------------------------------------------------

\* the texts read by a run of generar_datos put an input outside its range:
\* n outside [1, 1000000]; p outside [0, 1] (Bernoulli, Binomial);
\* n_trials <= 0; sigma <= 0; lambda <= 0 (Poisson, Exponencial); a >= b
EntradaFueraDeRango(l) ==
    LET n == int_py(l.n)
        i1 == int_py(l.param1)
        f1 == float_py(l.param1)
        f2 == float_py(l.param2)
        Cero == FxInt(0)
        Uno == FxInt(1)
    IN  \/ n.ok /\ (ValorInt(n.v) < 1 \/ ValorInt(n.v) > 1000000)
        \/ l.dist = "Bernoulli" /\ f1.ok /\ (FxLess(f1.v, Cero) \/ FxLess(Uno, f1.v))
        \/ l.dist = "Binomial" /\ i1.ok /\ f2.ok
           /\ (ValorInt(i1.v) < 1 \/ FxLess(f2.v, Cero) \/ FxLess(Uno, f2.v))
        \/ l.dist \in {"Poisson", "Exponencial"} /\ f1.ok /\ ~FxLess(Cero, f1.v)
        \/ l.dist = "Normal" /\ f1.ok /\ f2.ok /\ ~FxLess(Cero, f2.v)
        \/ l.dist = "Uniforme" /\ f1.ok /\ f2.ok /\ ~FxLess(f1.v, f2.v)

MensajesDeError ==
    {MsjRango, "El parametro p debe estar entre 0 y 1", "El parametro n debe ser mayor a 0",
     "El parametro lambda debe ser mayor a 0", "El parametro a debe ser menor que b",
     "La desviacion estandar sigma debe ser mayor a 0"}

\* C5: a run of generar_datos on an out-of-range input shows an error, keeps
\* datos_generados as it was before the run and calls no sampling method.
C5_Rechazo ==
    [][(generaciones' = generaciones + 1 /\ EntradaFueraDeRango(leido'))
       => /\ datos_generados' = datos_generados
          /\ leido'.muestreo = FALSE
          /\ mensaje' \in MensajesDeError]_vars

C5_Witness ==
    /\ generaciones = MaxGeneraciones
    /\ datos_generados # <<>>
    /\ leido.dist = "Normal" /\ leido.param2 = "-1"
    /\ EntradaFueraDeRango(leido)
    /\ mensaje = "La desviacion estandar sigma debe ser mayor a 0"

\* ------------------------------------------------------------------------
\* Properties of the fit window (SpecPrueba) and of the merge loop (SpecMerge)
\* ------------------------------------------------------------------------
\* a float strictly between 0 and 1
EnIntervaloAbierto(v) == v.k = "fx" /\ v.i = 0 /\ (v.hi > 0 \/ v.lo > 0)

\* the text of alpha_var does not give a number of the open interval (0,1)
AlphaFueraDeIntervalo(txt) ==
    LET a == float_py(txt) IN ~a.ok \/ ~EnIntervaloAbierto(a.v)

MensajesDePrueba == {"", MsjSinDatos, MsjAlphaRango, MsjAlphaInvalido, MsjErrorPrueba}

\* C6: a run of realizar_prueba_local on an empty sample, or with an alpha
\* that is not a number of the open interval (0,1), fails without running a
\* test: it shows a warning or an error and leaves the results text and the
\* plot exactly as they were.
C6_SinPrueba ==
    [][(/\ mensaje_prueba' \in MensajesDePrueba
        /\ datos_prueba = <<>> \/ AlphaFueraDeIntervalo(alpha_leido'))
       => /\ resultados_text' = resultados_text
          /\ grafico' = grafico
          /\ mensaje_prueba' \in {MsjSinDatos, MsjAlphaRango, MsjAlphaInvalido}]_vars

\* C7: when the merge loop ends, every remaining bin has an expected
\* frequency of at least 5, or exactly 2 bins remain.
C7_Combinados ==
    fase = "fin" =>
        \/ \A i \in 1..Len(expected) : FxLeq(FxInt(5), expected[i])
        \/ Len(expected) = 2

Tiene(sec) == \E j \in 1..Len(resultados_text) : resultados_text[j].sec = sec

Seccion(sec) ==
    resultados_text[CHOOSE j \in 1..Len(resultados_text) : resultados_text[j].sec = sec]

Decisiones == {"AJUSTA", "NO AJUSTA"}

\* the combined verdict as a table over the two decisions
Veredicto ==
    [d \in Decisiones \X Decisiones |->
        CASE d = <<"AJUSTA", "AJUSTA">> -> "SE AJUSTAN"
          [] d = <<"NO AJUSTA", "NO AJUSTA">> -> "NO SE AJUSTAN"
          [] OTHER -> "NO CONCUERDAN"]

\* what a background colour of the plot stands for
ClaseDeFondo ==
    [c \in {VerdeClaro, RojoClaro, Amarillo} |->
        CASE c = VerdeClaro -> "SE AJUSTAN"
          [] c = RojoClaro -> "NO SE AJUSTAN"
          [] c = Amarillo -> "NO CONCUERDAN"]

\* C8: the verdict written in the text is the table's value at the two
\* decisions written before it (both fit, both do not fit, otherwise they
\* disagree), and whenever the text holds a verdict the background of the
\* plot stands for that verdict.
C8_Veredicto ==
    Tiene("conclusion") =>
        /\ Tiene("ks") /\ Tiene("chi")
        /\ Seccion("ks").decision \in Decisiones
        /\ Seccion("chi").decision \in Decisiones
        /\ Seccion("conclusion").veredicto =
               Veredicto[<<Seccion("ks").decision, Seccion("chi").decision>>]
        /\ grafico.fondo \in DOMAIN ClaseDeFondo
        /\ ClaseDeFondo[grafico.fondo] = Seccion("conclusion").veredicto

\* p > a on the numbers two floats stand for; no number is above or below nan
Mayor(p, a) ==
    /\ p.k = "fx" /\ a.k = "fx"
    /\ \/ p.i * W16 + p.hi > a.i * W16 + a.hi
       \/ p.i * W16 + p.hi = a.i * W16 + a.hi /\ p.lo > a.lo

AlphaDelInforme == float_py(Seccion("encabezado").alpha).v

\* C9: in both tests the decision written is AJUSTA exactly when the p-value
\* written is strictly above alpha (a p-value equal to alpha gives NO AJUSTA),
\* whichever side of the critical value the statistic is on.
C9_Decisiones ==
    /\ Tiene("ks") =>
          (Seccion("ks").decision = "AJUSTA" <=> Mayor(Seccion("ks").pvalor, AlphaDelInforme))
    /\ Tiene("chi") =>
          (Seccion("chi").decision = "AJUSTA" <=> Mayor(Seccion("chi").pvalor, AlphaDelInforme))
    /\ \A s \in {"ks", "chi"} : Tiene(s) => Seccion(s).decision \in Decisiones

C9_Witness ==
    /\ Tiene("ks") /\ Tiene("chi")
    /\ Seccion("ks").pvalor = AlphaDelInforme
    /\ Seccion("ks").excede = FALSE
    /\ Seccion("ks").decision = "NO AJUSTA"
    /\ Mayor(Seccion("chi").pvalor, AlphaDelInforme)
    /\ Seccion("chi").decision = "AJUSTA"

\* C11: after the merge loop no bin of the table, from which the chi-square
\* statistic sum((observed - expected)^2 / expected) is computed, has an
\* expected frequency of 0.
C11_SinCeros ==
    Tiene("tabla") =>
        \A i \in 1..Len(Seccion("tabla").expected) : Seccion("tabla").expected[i] # FxInt(0)

\* the least position holding the least value of the frequencies e
PrimerMinimo(e) ==
    LET m == CHOOSE v \in {e[j] : j \in 1..Len(e)} : \A j \in 1..Len(e) : FxLeq(v, e[j])
    IN  CHOOSE i \in 1..Len(e) : e[i] = m /\ \A j \in 1..(i - 1) : e[j] # m

\* the vector s after its positions a and a + 1 are merged into one
Fusion(s, a) ==
    [j \in 1..(Len(s) - 1) |->
        IF j < a THEN s[j] ELSE IF j = a THEN s[a] + s[a + 1] ELSE s[j + 1]]

\* the same on a vector of floats
FusionDeFrecuencias(s, a) ==
    [j \in 1..(Len(s) - 1) |->
        IF j < a THEN s[j] ELSE IF j = a THEN FxSuma(s[a], s[a + 1]) ELSE s[j + 1]]

\* C17: a merge step takes the bin of least expected frequency (the first of
\* them on ties) and merges it into the bin before it, the first bin into the
\* second; the number of bins goes down by one, the receiving bin holds the
\* sums of the observed and of the expected values of the two bins, and the
\* other bins keep theirs.
C17_Paso ==
    [][(fase = "bucle" /\ fase' = "bucle")
       => LET i == PrimerMinimo(expected)
              a == IF i = 1 THEN 1 ELSE i - 1
          IN  /\ Len(expected') = Len(expected) - 1
              /\ Len(observed') = Len(observed) - 1
              /\ expected' = FusionDeFrecuencias(expected, a)
              /\ observed' = Fusion(observed, a)]_vars

C17_Witness ==
    /\ fase = "bucle"
    /\ Len(expected) = 3
    /\ observed = <<3, 4, 24>>
    /\ expected = Frecuencias(<<2, 2, 7>>)

\* round(1 + 3.322 * log10(n)) reaches 1, 2, ..., 16 at these n
UmbralesRedondeo ==
    <<1, 2, 3, 6, 12, 23, 46, 91, 181, 362, 724, 1448, 2896, 5792, 11583, 23166>>

\* clamp(round(1 + 3.322 * log10(n)), 5, 15)
SturgesRedondeado(n) ==
    LET r == Cardinality({j \in 1..Len(UmbralesRedondeo) : UmbralesRedondeo[j] <= n})
    IN  IF r < 5 THEN 5 ELSE IF r > 15 THEN 15 ELSE r

\* C18: the histogram of a sample of n values has
\* k = clamp(round(1 + 3.322 * log10(n)), 5, 15) bins, a number in [5, 15].
C18_Sturges ==
    Tiene("tabla") =>
        /\ Seccion("tabla").k \in 5..15
        /\ Seccion("tabla").k = SturgesRedondeado(Seccion("encabezado").n)

ParametrosEstimados(distribucion) ==
    CASE distribucion = "Normal" -> 2
      [] distribucion = "Uniforme" -> 2
      [] distribucion = "Exponencial" -> 1
      [] distribucion = "Poisson" -> 1

\* C19: the degrees of freedom written are (bins after merging - 1) - p,
\* with p = 2 for Normal and Uniforme and p = 1 for Exponencial and Poisson,
\* and 1 when that is below 1; they are at least 1 also when 2 bins remain.
C19_Grados ==
    Tiene("chi") =>
        LET libres == Len(Seccion("tabla").observed) - 1
                          - ParametrosEstimados(Seccion("encabezado").distribucion)
        IN  /\ Seccion("chi").df = IF libres < 1 THEN 1 ELSE libres
            /\ Seccion("chi").df >= 1

C19_Witness ==
    /\ Tiene("chi")
    /\ Seccion("encabezado").distribucion = "Normal"
    /\ Seccion("tabla").k = 5
    /\ Len(Seccion("tabla").observed) = 2
    /\ Seccion("chi").df = 1

\* the multiplications Knuth's loop makes from the draw after position desde
\* of the stream that starts in state x: the product starts at p = 1 and is
\* multiplied by the next draw while it is above L
RECURSIVE Multiplicaciones(_, _, _, _, _)
Multiplicaciones(x, desde, L, p, m) ==
    IF dbl_greater(p, L)
    THEN Multiplicaciones(x, desde, L, dbl_mul_u(p, DrawRef(x, desde + m + 1)), m + 1)
    ELSE m

\* the draws taken by the first j values of a Poisson call
RECURSIVE DrawsPoisson(_, _)
DrawsPoisson(ret, j) == IF j = 0 THEN 0 ELSE DrawsPoisson(ret, j - 1) + ret[j] + 1

\* C20: every value returned by poisson is the number of multiplications of
\* Knuth's loop minus 1 (product 1, multiplied by successive draws while it
\* is above exp(-lambda)); it is at least 0 and takes value + 1 draws.
C20_Knuth ==
    \A i \in Inst :
        (ultima[i] # None /\ ultima[i].metodo = "poisson") =>
           LET c == ultima[i]
               L == exp_neg(c.params[1])
           IN  /\ \A j \in 1..Len(c.ret) :
                     /\ c.ret[j] >= 0
                     /\ c.ret[j] = Multiplicaciones(c.antes.actual, DrawsPoisson(c.ret, j - 1),
                                                    L, dbl_one, 0) - 1
               /\ gen[i].draws - c.antes.draws = DrawsPoisson(c.ret, Len(c.ret))

\* ------------------------------------------------------------------------
\* Properties of the Monte Carlo window (SpecMonteCarlo)
\* ------------------------------------------------------------------------

\* (x - 0.5)^2 + (y - 0.5)^2 <= 0.25 in exact arithmetic, for x = X / 2^32
\* and y = Y / 2^32: X^2 + Y^2 + 2^62 <= 2^32 * (X + Y)
EnElCirculo(x, y) ==
    LET X == EnDigitos(x)
        Y == EnDigitos(y)
    IN  ~BigMayor(BigAdd(BigAdd(BigMul(X, X), BigMul(Y, Y), 0), Cuarto, 0),
                  BigShl(BigAdd(X, Y, 0), 32))

\* the points inside the circle among the first N pairs of the stream of seed s
PuntosDentro(s, N) ==
    Cardinality({j \in 1..N : EnElCirculo(DrawRef(s, 2 * j - 1), DrawRef(s, 2 * j))})

EsInformePi(r) == r.titulo = "Estimacion de pi"

\* C16: the pi experiment writes results only for N in [1, 2000000]; they
\* report the points of the first N pairs of draws that satisfy
\* (x-0.5)^2 + (y-0.5)^2 <= 0.25 as inside, inside + outside = N, and the
\* estimate 4 * inside / N, which lies in [0, 4]; a run that reports N out
\* of range leaves the results, the text and the axes as they were.
C16_Pi ==
    /\ [](EsInformePi(resultados_actuales) =>
            LET r == resultados_actuales
            IN  /\ r.total >= 1 /\ r.total <= 2000000
                /\ r.gen.draws = 2 * r.total
                /\ r.dentro = PuntosDentro(r.gen.semilla, r.total)
                /\ r.dentro + r.fuera = r.total
                /\ r.pi_est = Cociente(4 * r.dentro, r.total)
                /\ 0 <= r.pi_est.num /\ r.pi_est.num <= 4 * r.pi_est.den)
    /\ [][(simulaciones' # simulaciones /\ mensaje_simulacion' = MsjPiRango) =>
             UNCHANGED <<texto_simulacion, resultados_actuales, ejes, simulacion>>]_vars

C16_Witness ==
    /\ EsInformePi(resultados_actuales)
    /\ resultados_actuales.total = 2
    /\ resultados_actuales.dentro = 1
    /\ resultados_actuales.fuera = 1

EnRuina == simulacion.pc \in {"ruina_for", "ruina_while"}

Ultimo(q) == q[Len(q)]

\* C15: in the ruin experiment the round counter of a player never exceeds
\* 10000; while capital > 0 and fewer than 10000 rounds were played the
\* next step is a round, which takes exactly one draw, adds the bet to the
\* capital when the draw is below p and subtracts it otherwise, and counts
\* one round more (so 10000 - rounds decreases); otherwise the player's walk
\* is left, with capital <= 0 or rounds = 10000, and its capital and rounds
\* are recorded as they are.
C15_Ruina ==
    /\ [](EnRuina => simulacion.rondas >= 0 /\ simulacion.rondas <= 10000)
    /\ [][simulacion.pc = "ruina_while" =>
             LET m == simulacion
                 u == DrawRef(m.gen.actual, 1)
             IN  IF m.cap > 0 /\ m.rondas < 10000
                 THEN /\ simulacion'.pc = "ruina_while"
                      /\ simulacion'.gen.draws = m.gen.draws + 1
                      /\ simulacion'.rondas = m.rondas + 1
                      /\ simulacion'.cap = IF FxLess(u, m.prob_ganar) THEN m.cap + m.apuesta
                                           ELSE m.cap - m.apuesta
                 ELSE /\ m.cap <= 0 \/ m.rondas = 10000
                      /\ simulacion'.pc = "ruina_for"
                      /\ simulacion'.gen = m.gen
                      /\ Ultimo(simulacion'.capitales_finales) = m.cap
                      /\ Ultimo(simulacion'.rondas_totales) = m.rondas]_vars

\* a player stopped by the cap on the rounds with capital left
C15_Witness ==
    /\ simulacion.pc = "ruina_for"
    /\ simulacion.capitales_finales # <<>>
    /\ Ultimo(simulacion.capitales_finales) = 10001
    /\ Ultimo(simulacion.rondas_totales) = 10000
    /\ simulacion.gen.draws = 10000

EsInformeIntegral(r) == r.titulo = "Integral Definida"

\* the user's function cannot be evaluated at x
NoSeEvalua(funcion_str, x) ==
    \/ funcion_str = "1/0"
    \/ funcion_str = "1/x" /\ x = FxInt(0)

\* the points among the first N of the stream of seed s at which the
\* function cannot be evaluated: all of them for 1/0
Omitidos(funcion_str, s, N) ==
    IF funcion_str = "1/0" THEN N
    ELSE Cardinality({j \in 1..N : NoSeEvalua(funcion_str, DrawRef(s, 2 * j - 1))})

\* C12: the results of the integral experiment count a point at which the
\* function fails to evaluate neither as inside nor as outside nor in the
\* denominator of the area estimate, and report the number of such points.
C12_Omitidos ==
    (EsInformeIntegral(resultados_actuales) /\ resultados_actuales.puntos > 0) =>
        LET r == resultados_actuales
            k == Omitidos(r.funcion, r.gen.semilla, r.puntos)
        IN  /\ r.dentro + r.fuera = r.puntos - k
            /\ r.area_est = Cociente(r.dentro, r.puntos - k)
            /\ k > 0 => ("omitidos" \in DOMAIN r /\ r.omitidos = k)

\* the calls of lcg() made by the running experiment, or by the one whose
\* results are shown
DrawsDelExperimento ==
    IF simulacion.pc # "reposo" THEN simulacion.gen.draws
    ELSE IF resultados_actuales.titulo # "" THEN resultados_actuales.gen.draws
    ELSE 0

\* C13: no experiment makes more than 2000000 calls of lcg().
C13_Limite == DrawsDelExperimento <= 2000000

\* ------------------------------------------------------------------------
\* Properties of a session (SpecSesion)
\* ------------------------------------------------------------------------

\* the entries a run of generar_datos has read
EntradasLeidas(l) ==
    [n |-> l.n, auto |-> l.auto, semilla |-> l.semilla, dist |-> l.dist,
     param1 |-> l.param1, param2 |-> l.param2]

\* the step is a run of generar_datos that sampled with a seed typed by the user
GeneracionConSemilla ==
    /\ generaciones' = generaciones + 1
    /\ leido'.muestreo
    /\ leido'.auto = FALSE /\ leido'.semilla # ""

\* the run of generar_datos with the entries w in a window just opened
EnVentanaNueva(w) == generar_datos(w, Limbs(0, 7), <<>>, None)

\* C14: a run of generar_datos with a manual seed stores the sample, and
\* leaves generador_actual in the state, that the same entries give in a
\* window just opened, whatever runs of generar_datos or of an experiment,
\* accepted or rejected, came before it.
C14_SinHistoria ==
    [][GeneracionConSemilla =>
          LET r == EnVentanaNueva(EntradasLeidas(leido'))
          IN  /\ datos_generados' = r.datos
              /\ generador_actual' = r.generador]_vars

\* a second run with a manual seed, after a run that sampled and an experiment
C14_Witness ==
    /\ generaciones = 2
    /\ simulaciones = 1
    /\ leido.muestreo /\ leido.auto = FALSE /\ leido.semilla = "634785765"
    /\ leido.dist = "Normal"
    /\ Len(datos_generados) = 2
    /\ generador_actual.draws = 4

\* ------------------------------------------------------------------------
\* Properties of the discrete sampling methods (SpecGen)
\* ------------------------------------------------------------------------

EsLlamada(i, metodo) == ultima[i] # None /\ ultima[i].metodo = metodo

\* C22: every value of bernoulli(p, n) is 1 when its draw is below p and 0
\* otherwise, hence 0 or 1; with p = 0 every value is 0 and with p = 1 every
\* value is 1, whatever the seed.
C22_Bernoulli ==
    \A i \in Inst :
        EsLlamada(i, "bernoulli") =>
           LET c == ultima[i]
               p == c.params[1]
           IN  \A j \in 1..Len(c.ret) :
                  /\ c.ret[j] \in {0, 1}
                  /\ c.ret[j] = 1 <=> FxLess(DrawRef(c.antes.actual, j), p)
                  /\ p = FxInt(0) => c.ret[j] = 0
                  /\ p = FxInt(1) => c.ret[j] = 1

\* p = 0 on the stream whose first draw is 0.0
C22_Witness ==
    \E i \in Inst :
        /\ EsLlamada(i, "bernoulli")
        /\ ultima[i].params = <<FxInt(0)>>
        /\ ultima[i].antes.actual = Limbs(9686, 4069)
        /\ ultima[i].ret = <<0, 0>>

\* the successes among the draws from + 1 .. from + n_trials after state x
Exitos(x, desde, n_trials, p) ==
    Cardinality({t \in 1..n_trials : FxLess(DrawRef(x, desde + t), p)})

\* C23: the i-th value of binomial(n_trials, p, n) is the number of draws
\* below p among draws (i-1)*n_trials+1 .. i*n_trials of the call, so it
\* lies in [0, n_trials].
C23_Binomial ==
    \A i \in Inst :
        EsLlamada(i, "binomial") =>
           LET c == ultima[i]
               n_trials == c.params[1]
           IN  \A j \in 1..Len(c.ret) :
                  /\ c.ret[j] >= 0 /\ c.ret[j] <= n_trials
                  /\ c.ret[j] = Exitos(c.antes.actual, (j - 1) * n_trials, n_trials, c.params[2])

C23_Witness ==
    \E i \in Inst :
        /\ EsLlamada(i, "binomial")
        /\ ultima[i].params[1] = 2
        /\ Len(ultima[i].ret) = 2
        /\ ultima[i].ret[1] = 2
        /\ gen[i].draws - ultima[i].antes.draws = 4

\* ------------------------------------------------------------------------
\* Properties of a call of poisson() (SpecPoisson)
\* ------------------------------------------------------------------------

\* C21: the loop while p > L of poisson() cannot run for ever: a pass is
\* made only while p > L, it counts one more in k and leaves a product
\* that is 0.0 or strictly below the product before it (doubles admit no
\* infinite strictly descending chain, and 0.0 > L is false); once
\* p <= L the loop is left with k - 1 appended, and the call returns after
\* exactly n values, each of them >= 0 when exp(-lambda) is below 1 and
\* -1, after no pass at all, when it is 1.0.
C21_Termina ==
    /\ [](knuth.pc = "fin" =>
            /\ Len(knuth.resultados) = knuth.n
            /\ \A j \in 1..knuth.n :
                   IF dbl_greater(dbl_one, exp_neg(knuth.lambd))
                   THEN knuth.resultados[j] >= 0
                   ELSE knuth.resultados[j] = -1)
    /\ [][knuth.pc = "while" =>
             IF dbl_greater(knuth.p, knuth.L)
             THEN /\ knuth'.pc = "while"
                  /\ knuth'.k = knuth.k + 1
                  /\ knuth'.g.draws = knuth.g.draws + 1
                  /\ knuth'.p = dbl_zero \/ dbl_greater(knuth.p, knuth'.p)
             ELSE /\ knuth'.pc = "for"
                  /\ knuth'.resultados = Append(knuth.resultados, knuth.k - 1)]_vars

\* a call that returned two values, one of them after three passes or more
C21_Witness ==
    /\ knuth.pc = "fin"
    /\ Len(knuth.resultados) = 2
    /\ \E j \in 1..2 : knuth.resultados[j] >= 2
    /\ knuth.g.draws = knuth.resultados[1] + knuth.resultados[2] + 2

\* the sample sizes of the histograms that enter the loop: the counts of the
\* k bins are 1, 2, 4, ..., 2^(k-1)
Tamanos == {2^k - 1 : k \in MinIntervalos..MaxIntervalos}

\* C27: in the merge loop the observed counts always add up to the sample
\* size, and a merge step leaves the sum of the observed counts and the sum
\* of the expected frequencies as they were: nothing is dropped or counted
\* twice.
C27_Masa ==
    /\ [](fase \in {"bucle", "fin"} => SumSeq(observed) \in Tamanos)
    /\ [][(fase = "bucle" /\ fase' = "bucle") =>
             /\ SumSeq(observed') = SumSeq(observed)
             /\ FxSumSeq(expected') = FxSumSeq(expected)]_vars

\* the loop entered with expected <<2, 2, 0, 0, 7>> and left after two merges
\* of a middle bin and one of the first bin
C27_Witness ==
    /\ fase = "fin"
    /\ observed = <<15, 16>>
    /\ expected = Frecuencias(<<4, 7>>)
    /\ bins = <<1, 2, 5>>

\* C26: in the merge loop the edge list has one element more than the bin
\* list, and the interval [bins[i], bins[i+1]) of every bin is the union of
\* the original intervals whose counts the bin holds: original bin j is
\* [j - 1, j) and holds 2^(j-1) values, so a bin over [a, b) holds
\* 2^b - 2^a of them.
C26_Intervalos ==
    fase \in {"bucle", "fin"} =>
        /\ Len(bins) = Len(observed) + 1
        /\ \A i \in 1..Len(observed) : observed[i] = 2^bins[i + 1] - 2^bins[i]

\* the players whose walk was left with capital <= 0
Absorbidos(capitales_finales) ==
    Cardinality({j \in 1..Len(capitales_finales) : capitales_finales[j] <= 0})

\* C28: the results of the ruin experiment count as ruined every player
\* whose walk was left with capital <= 0, and the ruin probability shown is
\* that count over sims.
C28_Ruinas ==
    [][(simulacion.pc = "ruina_for" /\ simulacion'.pc = "reposo"
        /\ texto_simulacion'.titulo = "Ruina del Jugador") =>
          /\ texto_simulacion'.ruinas = Absorbidos(simulacion.capitales_finales)
          /\ texto_simulacion'.prob_ruina =
                 Cociente(Absorbidos(simulacion.capitales_finales), simulacion.sims)]_vars

\* C29: generador_actual[0] is the generator that produced the stored
\* sample: while a sample is stored the remembered generator has made the
\* draws of that sample, and a run of generar_datos that stores no sample
\* leaves both the stored sample and the remembered generator (whose seed
\* exportar_datos writes) as they were.
C29_Generador ==
    /\ [](datos_generados # <<>> =>
            /\ generador_actual # None
            /\ generador_actual.draws >= Len(datos_generados))
    /\ [][(generaciones' # generaciones /\ ~leido'.muestreo /\ datos_generados # <<>>) =>
             /\ datos_generados' = datos_generados
             /\ generador_actual' = generador_actual]_vars

\* C30: no run of the fit test leaves a partial result: the text
\* exportar_resultados would write is empty or holds the decisions of both
\* tests and the conclusion, and the plot is the initial one or a finished
\* one.
C30_SinParciales ==
    /\ exportar_resultados(resultados_text).archivo # <<>> =>
           \A sec \in {"ks", "chi", "conclusion"} :
               \E j \in 1..Len(resultados_text) : resultados_text[j].sec = sec
    /\ grafico.estado \in {"inicial", "dibujado"}

EnColas == simulacion.pc \in {"colas_for", "colas_clientes"}

\* C24: in the queue experiment a customer arrives strictly after the one
\* before, waits max(0, previous departure - arrival), the first customer
\* of a replication 0, and leaves no earlier than the one before; no
\* recorded waiting time is negative.
C24_Esperas ==
    /\ [](EnColas =>
            \A j \in 1..Len(simulacion.tiempos_espera_sim) :
                FxLeq(FxInt(0), simulacion.tiempos_espera_sim[j]))
    /\ [](texto_simulacion.titulo = "Sistema de Colas" =>
            \A j \in 1..Len(texto_simulacion.tiempos_espera) :
                FxLeq(FxInt(0), texto_simulacion.tiempos_espera[j]))
    /\ [][(simulacion.pc = "colas_clientes" /\ simulacion'.pc = "colas_clientes") =>
             LET llegada == simulacion'.tiempo_actual
                 espera == Ultimo(simulacion'.tiempos_espera_sim)
             IN  /\ Len(simulacion'.tiempos_espera_sim) = Len(simulacion.tiempos_espera_sim) + 1
                 /\ Len(simulacion'.cola) = Len(simulacion.cola) + 1
                 /\ FxLess(simulacion.tiempo_actual, llegada)
                 /\ IF simulacion.cola = <<>> THEN espera = FxInt(0)
                    ELSE /\ espera = IF FxLess(llegada, Ultimo(simulacion.cola))
                                     THEN FxResta(Ultimo(simulacion.cola), llegada)
                                     ELSE FxInt(0)
                         /\ FxLeq(Ultimo(simulacion.cola), Ultimo(simulacion'.cola))]_vars

EnInventarios == simulacion.pc \in {"inventarios_for", "inventarios_sims"}

\* C25: the inventory experiment evaluates the quantities 10, 20, ..., 190
\* in this order, each on sims draws of the demand; the quantity reported
\* is one whose mean cost no other quantity undercuts, the smallest of
\* them, and the minimum cost reported is the mean cost of that quantity.
C25_Optimo ==
    /\ [](EnInventarios =>
            /\ Len(simulacion.cantidades_opt) <= 19
            /\ Len(simulacion.costos_totales) = Len(simulacion.cantidades_opt)
            /\ \A j \in 1..Len(simulacion.cantidades_opt) : simulacion.cantidades_opt[j] = 10 * j
            /\ simulacion.sims >= 0 =>
                   \A j \in 1..Len(simulacion.costos_totales) :
                       simulacion.costos_totales[j] = NaN
                       \/ simulacion.costos_totales[j].den = simulacion.sims)
    /\ [][(simulacion.pc = "inventarios_for" /\ simulacion'.pc = "reposo") =>
             LET m == simulacion
                 r == texto_simulacion'
                 k == r.q_optimo \div 10
             IN  /\ r.titulo = "Problema de Inventarios"
                 /\ Len(m.cantidades_opt) = 19
                 /\ m.gen.draws = 19 * (IF m.sims > 0 THEN m.sims ELSE 0)
                 /\ r.q_optimo \in {10 * j : j \in 1..19}
                 /\ \A j \in 1..19 : ~costo_menor(m.costos_totales[j], m.costos_totales[k])
                 /\ \A j \in 1..(k - 1) : costo_menor(m.costos_totales[k], m.costos_totales[j])
                 /\ r.costo_minimo = m.costos_totales[k]]_vars

\* results on two draws per quantity in which 50, not the least quantity, is
\* the best
C25_Witness ==
    /\ texto_simulacion.titulo = "Problema de Inventarios"
    /\ texto_simulacion.sims = 2
    /\ texto_simulacion.q_optimo = 50
    /\ texto_simulacion.costo_minimo # NaN
    /\ texto_simulacion.gen.draws = 38

====
